---- MODULE Spec2Model ----
(***************************************************************************)
(* State-machine model of the CLIProxyAPI core: the signature cache and    *)
(* the thinking cache (internal/cache/signature_cache.go), the rate-limit  *)
(* store (internal/usage/ratelimit.go) and the thinking restoration of the *)
(* OpenAI -> Claude request translator.                                    *)
(*                                                                         *)
(* Program strings are sequences of one-character strings, so that length  *)
(* and substring tests are computed, not assumed.  Time is an integer      *)
(* number of minutes; 0 is Go's zero time.Time.                            *)
(***************************************************************************)
EXTENDS Integers, Sequences, FiniteSets, TLC

VARIABLES
    clock,           \* time.Now(), in minutes
    signatureCache,  \* sync.Map: model group -> *groupCache (its entries map), or no key
    sigCall,         \* the goroutine calling CacheSignature / GetCachedSignature / ClearSignatureCache
    sigRet,          \* what the last completed call of that goroutine returned
    sweeper,         \* the background goroutine of startCacheCleanup
    sigPutAt,        \* history: time of the last accepted CacheSignature (0: none yet)
    thinkingCache,   \* sync.Map: session id -> *thinkingSessionCache (its entries map), or no key
    thWriter,        \* the goroutine calling CacheThinking / ClearThinkingCache
    thReader,        \* the goroutine calling GetCachedThinking, directly or from the translator
    thRet,           \* what the reader's last completed call returned
    thPuts,          \* history: the (session, id, text, signature) tuples CacheThinking stored
    thLast,          \* history: per (session, id), the last CacheThinking stored and not cleared
    evCount,         \* number of CacheThinking calls made by the eviction scenario
    evJumped,        \* whether the eviction scenario has taken its long pause
    records,         \* RateLimitStore.records
    file,            \* the file at GetRateLimitFilePath()
    tmp,             \* the file at GetRateLimitFilePath() + ".tmp"
    savers,          \* the goroutines running Save
    storeLast,       \* history: the last accepted Record since the last Load
    loadRet,         \* what the last Load returned; turn tells one call from the next
    headers,         \* the http.Header of a response: header name -> first value
    parsed,          \* what ParseRateLimitHeaders returned for it
    summary,         \* what the last QueryByWindow returned, and its window
    rlAutoSaveCancel, \* 0 for nil, else the goroutine whose context the stored CancelFunc cancels
    parentDone,      \* whether the context handed to StartRateLimitAutoSave is cancelled
    writers,         \* the auto-save goroutines started so far
    stoppers,        \* the goroutines calling StopRateLimitAutoSave
    user,            \* package variable user of the translator
    account,         \* package variable account of the translator
    session,         \* package variable session of the translator
    translators,     \* the goroutines running ConvertOpenAIRequestToClaude step by step
    emitted,         \* history: every metadata.user_id those goroutines put in an output
    request,         \* the OpenAI Chat Completions request handed to the translator
    call,            \* the model name and the stream flag of the translator's last call
    out,             \* what ConvertOpenAIRequestToClaude returned for it
    limits,          \* what GetUsageLimits answered last, in its simple shape
    accepted,        \* history: how many records Record has appended since the store was made
    pending,         \* the Saves Record has started in goroutines that have not run yet
    saveRet,         \* what the last Save that ran alone returned
    extracted,       \* the last call of extractThinkingFromContent and the parts it returned
    acceptedLog,     \* the records Record appended, in the order of the appends
    thCall           \* the last GetCachedThinking or ClearThinkingCache call run alone, and what it returned

sigVars == <<signatureCache, sigCall, sigRet, sweeper, sigPutAt>>

thVars == <<thinkingCache, thWriter, thReader, thRet, thPuts, thLast>>

evVars == <<evCount, evJumped>>

storeVars == <<records, file, tmp, savers, storeLast, loadRet>>

parseVars == <<headers, parsed>>

queryVars == <<summary>>

autoVars == <<rlAutoSaveCancel, parentDone, writers, stoppers>>

idVars == <<user, account, session>>

uidVars == <<translators, emitted>>

convVars == <<request, call, out>>

mgmtVars == <<limits>>

countVars == <<accepted, pending, saveRet>>

extractVars == <<extracted>>

histVars == <<acceptedLog>>

isoVars == <<thCall>>

vars == <<clock, sigVars, thVars, evVars, storeVars, parseVars, queryVars, autoVars,
          idVars, uidVars, convVars, mgmtVars, countVars, extractVars, histVars, isoVars>>

\* What the actions of one subsystem leave alone.
sigOthers == <<thVars, evVars, storeVars, parseVars, queryVars, autoVars, idVars, uidVars, convVars,
               mgmtVars, countVars, extractVars, histVars, isoVars>>

thOthers == <<sigVars, storeVars, parseVars, queryVars, autoVars, idVars, uidVars, convVars,
              mgmtVars, countVars, extractVars, histVars, isoVars>>

storeOthers == <<clock, sigVars, thVars, evVars, parseVars, queryVars, autoVars, idVars, uidVars, convVars,
                 mgmtVars, countVars, extractVars, histVars, isoVars>>

parseOthers == <<clock, sigVars, thVars, evVars, storeVars, queryVars, autoVars, idVars, uidVars, convVars,
                 mgmtVars, countVars, extractVars, histVars, isoVars>>

queryOthers == <<clock, sigVars, thVars, evVars, parseVars, autoVars, idVars, uidVars, convVars,
                 mgmtVars, countVars, extractVars, histVars, isoVars>>

autoOthers == <<clock, sigVars, thVars, evVars, storeVars, parseVars, queryVars, idVars, uidVars, convVars,
                mgmtVars, countVars, extractVars, histVars, isoVars>>

uidOthers == <<clock, sigVars, thVars, evVars, storeVars, parseVars, queryVars, autoVars,
               convVars, mgmtVars, countVars, extractVars, histVars, isoVars>>

convOthers == <<clock, sigVars, thVars, evVars, storeVars, parseVars, queryVars, autoVars,
                uidVars, mgmtVars, countVars, extractVars, histVars, isoVars>>

mgmtOthers == <<clock, sigVars, thVars, evVars, parseVars, queryVars, autoVars,
                idVars, uidVars, convVars, countVars, extractVars, histVars, isoVars>>

countOthers == <<clock, sigVars, thVars, evVars, parseVars, queryVars, autoVars,
                 idVars, uidVars, convVars, mgmtVars, extractVars, histVars, isoVars>>

extractOthers == <<clock, sigVars, evVars, storeVars, parseVars, queryVars, autoVars,
                   idVars, uidVars, convVars, mgmtVars, countVars, histVars, isoVars>>

histOthers == <<clock, sigVars, thVars, evVars, parseVars, queryVars, autoVars,
                idVars, uidVars, convVars, mgmtVars, countVars, extractVars, isoVars>>

isoOthers == <<clock, sigVars, evVars, storeVars, parseVars, queryVars, autoVars,
               idVars, uidVars, convVars, mgmtVars, countVars, extractVars, histVars>>

----------------------------------------------------------------------------
(* Strings *)

Rep(c, n) == [i \in 1..n |-> c]

Contains(s, sub) ==
    \E i \in 0..(Len(s) - Len(sub)) : SubSeq(s, i + 1, i + Len(sub)) = sub

EmptyString == << >>

gpt == <<"g", "p", "t">>

claude == <<"c", "l", "a", "u", "d", "e">>

gemini == <<"g", "e", "m", "i", "n", "i">>

SkipValidator ==
    <<"s", "k", "i", "p", "_", "t", "h", "o", "u", "g", "h", "t", "_",
      "s", "i", "g", "n", "a", "t", "u", "r", "e", "_",
      "v", "a", "l", "i", "d", "a", "t", "o", "r">>

----------------------------------------------------------------------------
(* Time *)

StartClock == 20000

MaxElapsed == 121

TickSteps == {60, 61}

Tick ==
    /\ \E d \in TickSteps :
        /\ clock + d <= StartClock + MaxElapsed
        /\ clock' = clock + d

----------------------------------------------------------------------------
(* Signature cache *)

SignatureCacheTTL == 120

MinValidSignatureLen == 50

\* The ticker of the sweeper: ten minutes.
CacheCleanupInterval == 10

ModelNames ==
    { gemini \o <<"-", "p", "r", "o">>,
      gpt \o <<"-">> \o gemini,
      claude \o <<"-">> \o gemini,
      <<"l", "l", "a", "m", "a">> }

CacheModelNames ==
    { gemini \o <<"-", "p", "r", "o">>, <<"l", "l", "a", "m", "a">> }

SigTexts == { EmptyString, <<"t", "1">> }

SigValues == { EmptyString, Rep("x", 49), Rep("a", 50), Rep("b", 51) }

GetModelGroupGeminiFirst(modelName) ==
    IF Contains(modelName, gemini) THEN gemini
    ELSE IF Contains(modelName, gpt) THEN gpt
    ELSE IF Contains(modelName, claude) THEN claude
    ELSE modelName

GetModelGroup(modelName) ==
    IF Contains(modelName, gpt) THEN gpt
    ELSE IF Contains(modelName, claude) THEN claude
    ELSE IF Contains(modelName, gemini) THEN gemini
    ELSE modelName

HasValidSignature(modelName, signature) ==
    \/ signature # EmptyString /\ Len(signature) >= MinValidSignatureLen
    \/ signature = SkipValidator /\ GetModelGroup(modelName) = gemini

\* The 16-hex-digit SHA-256 prefix of a text: a digest value, distinct from the
\* text and distinct for the distinct texts of the model.
hashText(text) == <<"#">> \o text

Groups == { GetModelGroup(m) : m \in ModelNames }

SigHashes == { hashText(t) : t \in SigTexts \ {EmptyString} }

SigIdle == [pc |-> "idle"]

NoRet == [op |-> "none"]

\* A key of the sync.Map: absent, or the *groupCache stored under it.
NoBucket == [present |-> FALSE, entries |-> << >>]

NewBucket == [present |-> TRUE, entries |-> << >>]

\* What a miss returns.
MissValue(groupKey) == IF groupKey = gemini THEN SkipValidator ELSE EmptyString

SigInit ==
    /\ signatureCache = [g \in Groups |-> NoBucket]
    /\ sigCall = SigIdle
    /\ sigRet = NoRet
    /\ sweeper = [pc |-> "off"]
    /\ sigPutAt = 0

\* cacheCleanupOnce.Do(startCacheCleanup)
StartedSweeper == IF sweeper.pc = "off" THEN [pc |-> "sleep", since |-> clock] ELSE sweeper

\* entries with key k set to entry e
PutEntry(entries, k, e) ==
    [x \in (DOMAIN entries) \cup {k} |-> IF x = k THEN e ELSE entries[x]]

\* entries without key k
DeleteEntry(entries, k) == [x \in (DOMAIN entries) \ {k} |-> entries[x]]

\* The entries of the bucket the caller holds a pointer to: the one under its
\* key, or its own copy once the key was deleted from the sync.Map under it.
HeldEntries == IF sigCall.attached THEN signatureCache[sigCall.groupKey].entries
               ELSE sigCall.own

\* The held bucket's entries become e.
SetHeldEntries(e) ==
    IF sigCall.attached
    THEN /\ signatureCache' = [signatureCache EXCEPT ![sigCall.groupKey].entries = e]
    ELSE /\ UNCHANGED signatureCache

\* signatureCache.Delete(key) for every key of ks: a caller holding one of the
\* buckets keeps it, detached from the map.
Detached(ks) ==
    IF sigCall.pc # "idle" /\ sigCall.attached /\ sigCall.groupKey \in ks
    THEN [sigCall EXCEPT !.attached = FALSE,
                         !.own = signatureCache[sigCall.groupKey].entries]
    ELSE sigCall

\* CacheSignature's early returns.
CacheSignatureRejectsEmptyOnly(text, signature) ==
    text = EmptyString \/ signature = EmptyString

CacheSignatureRejects(text, signature) ==
    \/ text = EmptyString \/ signature = EmptyString
    \/ Len(signature) < MinValidSignatureLen

\* CacheSignature up to and including getOrCreateGroupCache.
CacheSignatureEnter(modelName, text, signature) ==
    /\ sigCall.pc = "idle"
    /\ IF CacheSignatureRejects(text, signature)
       THEN /\ sigRet' = [op |-> "cache", stored |-> FALSE, groupKey |-> GetModelGroup(modelName),
                          text |-> text, signature |-> signature]
            /\ UNCHANGED <<signatureCache, sigCall, sweeper, sigPutAt>>
       ELSE LET groupKey == GetModelGroup(modelName) IN
            /\ sweeper' = StartedSweeper
            /\ signatureCache' =
                  IF signatureCache[groupKey].present THEN signatureCache
                  ELSE [signatureCache EXCEPT ![groupKey] = NewBucket]
            /\ sigCall' = [pc |-> "cache_store", groupKey |-> groupKey,
                           textHash |-> hashText(text), text |-> text,
                           signature |-> signature,
                           attached |-> TRUE, own |-> << >>]
            /\ UNCHANGED <<sigRet, sigPutAt>>
    /\ UNCHANGED clock
    /\ UNCHANGED sigOthers

\* CacheSignature under sc.mu.Lock.
CacheSignatureStore ==
    /\ sigCall.pc = "cache_store"
    /\ SetHeldEntries(PutEntry(HeldEntries, sigCall.textHash,
                               [Signature |-> sigCall.signature, Timestamp |-> clock]))
    /\ sigPutAt' = clock
    /\ sigRet' = [op |-> "cache", stored |-> TRUE, groupKey |-> sigCall.groupKey,
                   text |-> sigCall.text, signature |-> sigCall.signature]
    /\ sigCall' = SigIdle
    /\ UNCHANGED <<clock, sweeper>>
    /\ UNCHANGED sigOthers

\* What GetCachedSignature returned, for the properties.
GetRet(modelName, text, outcome, value, now) ==
    [op |-> "get", modelName |-> modelName, text |-> text, outcome |-> outcome, value |-> value,
     late |-> now - sigPutAt > SignatureCacheTTL]

\* GetCachedSignature up to sc.mu.Lock: the returns without a bucket, else
\* the bucket, the hash and now.
GetCachedSignatureEnter(modelName, text) ==
    /\ sigCall.pc = "idle"
    /\ LET groupKey == GetModelGroup(modelName) IN
       IF text = EmptyString \/ ~signatureCache[groupKey].present
       THEN /\ sigRet' = GetRet(modelName, text, "miss", MissValue(groupKey), clock)
            /\ UNCHANGED sigCall
       ELSE /\ sigCall' = [pc |-> "get_locked", modelName |-> modelName, text |-> text,
                           groupKey |-> groupKey, textHash |-> hashText(text),
                           now |-> clock, attached |-> TRUE, own |-> << >>]
            /\ UNCHANGED sigRet
    /\ UNCHANGED <<clock, signatureCache, sweeper, sigPutAt>>
    /\ UNCHANGED sigOthers

\* The entry a fresh hit leaves in the map, without the refresh.
GetHitEntryNoRefresh(entry, now) == entry

\* The entry a fresh hit leaves in the map: its timestamp refreshed.
GetHitEntry(entry, now) == [entry EXCEPT !.Timestamp = now]

\* GetCachedSignature under sc.mu.Lock.
GetCachedSignatureLocked ==
    /\ sigCall.pc = "get_locked"
    /\ LET entries == HeldEntries
           h == sigCall.textHash
       IN
       IF h \notin DOMAIN entries
       THEN /\ sigRet' = GetRet(sigCall.modelName, sigCall.text, "miss",
                                MissValue(sigCall.groupKey), sigCall.now)
            /\ UNCHANGED signatureCache
       ELSE IF sigCall.now - entries[h].Timestamp > SignatureCacheTTL
       THEN /\ SetHeldEntries(DeleteEntry(entries, h))
            /\ sigRet' = GetRet(sigCall.modelName, sigCall.text, "expired",
                                MissValue(sigCall.groupKey), sigCall.now)
       ELSE /\ SetHeldEntries(PutEntry(entries, h, GetHitEntry(entries[h], sigCall.now)))
            /\ sigRet' = GetRet(sigCall.modelName, sigCall.text, "hit", entries[h].Signature,
                                sigCall.now)
    /\ sigCall' = SigIdle
    /\ UNCHANGED <<clock, sweeper, sigPutAt>>
    /\ UNCHANGED sigOthers

ClearSignatureCache(modelName) ==
    /\ sigCall.pc = "idle"
    /\ signatureCache' =
          IF modelName = EmptyString
          THEN [g \in Groups |-> NoBucket]
          ELSE [signatureCache EXCEPT ![GetModelGroup(modelName)] = NoBucket]
    /\ sigRet' = [op |-> "clear"]
    /\ UNCHANGED <<clock, sigCall, sweeper, sigPutAt>>
    /\ UNCHANGED sigOthers

\* purgeExpiredCaches: now := time.Now() and the start of the Range.
PurgeStart ==
    /\ sweeper.pc = "sleep"
    /\ clock - sweeper.since >= CacheCleanupInterval
    /\ sweeper' = [pc |-> "range", now |-> clock, since |-> sweeper.since,
                   todo |-> {g \in Groups : signatureCache[g].present}]
    /\ UNCHANGED <<clock, signatureCache, sigCall, sigRet, sigPutAt>>
    /\ UNCHANGED sigOthers

\* One bucket of the Range, under sc.mu.Lock: the expired entries go.
PurgeBucket ==
    /\ sweeper.pc = "range"
    /\ \E g \in sweeper.todo :
        IF ~signatureCache[g].present
        THEN /\ sweeper' = [sweeper EXCEPT !.todo = @ \ {g}]
             /\ UNCHANGED signatureCache
        ELSE LET entries == signatureCache[g].entries
                 kept == { k \in DOMAIN entries :
                             ~(sweeper.now - entries[k].Timestamp > SignatureCacheTTL) }
             IN
             /\ signatureCache' = [signatureCache EXCEPT ![g].entries =
                                      [k \in kept |-> entries[k]]]
             /\ sweeper' = IF kept = {}
                           THEN [pc |-> "delete", now |-> sweeper.now, since |-> sweeper.since,
                                 todo |-> sweeper.todo \ {g}, key |-> g]
                           ELSE [sweeper EXCEPT !.todo = @ \ {g}]
    /\ UNCHANGED <<clock, sigCall, sigRet, sigPutAt>>
    /\ UNCHANGED sigOthers

\* signatureCache.Delete(key) of a bucket found empty, after sc.mu.Unlock.
PurgeDelete ==
    /\ sweeper.pc = "delete"
    /\ signatureCache' = [signatureCache EXCEPT ![sweeper.key] = NoBucket]
    /\ sigCall' = Detached({sweeper.key})
    /\ sweeper' = [pc |-> "range", now |-> sweeper.now, since |-> sweeper.since,
                   todo |-> sweeper.todo]
    /\ UNCHANGED <<clock, sigRet, sigPutAt>>
    /\ UNCHANGED sigOthers

PurgeEnd ==
    /\ sweeper.pc = "range"
    /\ sweeper.todo = {}
    /\ sweeper' = [pc |-> "sleep", since |-> sweeper.since]
    /\ UNCHANGED <<clock, signatureCache, sigCall, sigRet, sigPutAt>>
    /\ UNCHANGED sigOthers

SigTick == Tick /\ UNCHANGED sigVars /\ UNCHANGED sigOthers

SigNext ==
    \/ \E m \in CacheModelNames, t \in SigTexts, s \in SigValues :
          CacheSignatureEnter(m, t, s)
    \/ CacheSignatureStore
    \/ \E m \in ModelNames, t \in SigTexts : GetCachedSignatureEnter(m, t)
    \/ GetCachedSignatureLocked
    \/ \E m \in {EmptyString} \cup CacheModelNames : ClearSignatureCache(m)
    \/ SigTick



\* C9: a GetCachedSignature that finds its entry fresh (now - Timestamp <= 2h)
\* returns the stored signature and leaves the entry with Timestamp = now, the
\* time of the get; one that finds it older than 2h returns the miss value and
\* leaves the key deleted.
C9_SlidingTTL ==
    [][ (sigCall.pc = "get_locked" /\ sigCall'.pc = "idle" /\ sigCall.attached) =>
        LET g == sigCall.groupKey
            h == sigCall.textHash
            before == signatureCache[g].entries
            after == signatureCache'[g].entries
        IN  h \in DOMAIN before =>
              IF sigCall.now - before[h].Timestamp <= SignatureCacheTTL
              THEN /\ sigRet'.outcome = "hit"
                   /\ sigRet'.value = before[h].Signature
                   /\ h \in DOMAIN after
                   /\ after[h].Timestamp = sigCall.now
                   /\ after[h].Signature = before[h].Signature
              ELSE /\ sigRet'.outcome = "expired"
                   /\ sigRet'.value = MissValue(g)
                   /\ h \notin DOMAIN after
      ]_vars

\* C9 witness: a get hit although more than 2h have passed since the last
\* CacheSignature: earlier gets kept the entry alive.
C9_HitPastOriginalCutoff ==
    sigRet.op = "get" /\ sigRet.outcome = "hit" /\ sigRet.late

\* C11: a CacheSignature call whose text is empty, whose signature is empty
\* or whose signature is shorter than 50 characters leaves the signature cache
\* as it was, and every value GetCachedSignature returns is the empty string
\* of a miss, the Gemini sentinel, or a signature of at least 50 characters.
C11_ShortSignaturesNeverCached ==
    /\ [](sigRet.op = "get" =>
             \/ sigRet.value \in { EmptyString, SkipValidator }
             \/ Len(sigRet.value) >= 50)
    /\ [][ ( /\ sigRet' # sigRet
             /\ sigRet'.op = "cache"
             /\ \/ sigRet'.text = EmptyString
                \/ sigRet'.signature = EmptyString
                \/ Len(sigRet'.signature) < 50 )
           => signatureCache' = signatureCache ]_vars

\* A call with a signature of 49 characters returned while the cache held an
\* entry of an earlier call.
C11_ShortSignatureTurnedAway ==
    /\ sigRet.op = "cache"
    /\ sigRet.text # EmptyString
    /\ Len(sigRet.signature) = 49
    /\ \E g \in Groups : signatureCache[g].present /\ signatureCache[g].entries # << >>

\* C10 as claimed: a miss for any model name containing "gemini" returns the
\* skip sentinel, which HasValidSignature accepts for that name; a miss for any
\* other name returns the empty string.
C10_AnyNameContainingGemini ==
    (sigRet.op = "get" /\ sigRet.outcome # "hit") =>
        IF Contains(sigRet.modelName, gemini)
        THEN /\ sigRet.value = SkipValidator
             /\ HasValidSignature(sigRet.modelName, SkipValidator)
        ELSE sigRet.value = EmptyString

\* C10 amended: the sentinel is returned, and accepted by HasValidSignature,
\* exactly for the names that contain "gemini" and neither "gpt" nor "claude";
\* a miss for every other name returns the empty string.
C10_GeminiGroupSentinel ==
    (sigRet.op = "get" /\ sigRet.outcome # "hit") =>
        IF /\ Contains(sigRet.modelName, gemini)
           /\ ~Contains(sigRet.modelName, gpt)
           /\ ~Contains(sigRet.modelName, claude)
        THEN /\ sigRet.value = SkipValidator
             /\ HasValidSignature(sigRet.modelName, SkipValidator)
        ELSE /\ sigRet.value = EmptyString
             /\ ~HasValidSignature(sigRet.modelName, SkipValidator)

\* C10 witness: a get found its entry expired and returned the sentinel.
C10_GeminiMissReturnsSentinel ==
    /\ sigRet.op = "get"
    /\ sigRet.outcome = "expired"
    /\ sigRet.value = SkipValidator

----------------------------------------------------------------------------
(* Thinking cache *)

ThinkingCacheTTL == 120

MaxThinkingEntriesPerSession == 100

Session1 == <<"s", "1">>

Session2 == <<"s", "2">>

ThSessions == { Session1, Session2 }

ThinkingIdA == <<"a", "1">>

TextOne == <<"T", "1">>

TextTwo == <<"T", "2">>

SigA == Rep("a", 50)

SigB == Rep("b", 50)

\* The CacheThinking calls of the model: three with every input present, one
\* per input left empty.
ThPutInputs ==
    { [sessionID |-> Session1, thinkingID |-> ThinkingIdA, thinkingText |-> TextOne, signature |-> SigA],
      [sessionID |-> Session1, thinkingID |-> ThinkingIdA, thinkingText |-> TextTwo, signature |-> SigB],
      [sessionID |-> Session2, thinkingID |-> ThinkingIdA, thinkingText |-> TextOne, signature |-> SigB],
      [sessionID |-> Session1, thinkingID |-> ThinkingIdA, thinkingText |-> TextOne, signature |-> EmptyString],
      [sessionID |-> Session1, thinkingID |-> ThinkingIdA, thinkingText |-> EmptyString, signature |-> SigA],
      [sessionID |-> Session1, thinkingID |-> EmptyString, thinkingText |-> TextOne, signature |-> SigA],
      [sessionID |-> EmptyString, thinkingID |-> ThinkingIdA, thinkingText |-> TextOne, signature |-> SigA] }

ThGetInputs ==
    { <<Session1, ThinkingIdA>>, <<Session2, ThinkingIdA>>,
      <<EmptyString, ThinkingIdA>>, <<Session1, EmptyString>> }

\* The model name of the translated request: the translator's call of
\* HasValidSignature names no model, this is the one in scope there.
TranslateModelName == claude \o <<"-", "3">>

ThIdle == [pc |-> "idle"]

NoPut == [stored |-> FALSE]

ThInit ==
    /\ thinkingCache = [s \in ThSessions |-> NoBucket]
    /\ thWriter = ThIdle
    /\ thReader = ThIdle
    /\ thRet = NoRet
    /\ thPuts = {}
    /\ thLast = << >>

\* CacheThinking's early return.
CacheThinkingRejects(sessionID, thinkingID, thinkingText, signature) ==
    \/ sessionID = EmptyString
    \/ thinkingID = EmptyString
    \/ thinkingText = EmptyString

\* len(sc.entries) >= MaxThinkingEntriesPerSession
AtCapacityOffByOne(n) == n > MaxThinkingEntriesPerSession

AtCapacity(n) == n >= MaxThinkingEntriesPerSession

\* toRemove: a quarter of the entries, at least one
ToRemoveQuarterPlusOne(n) == (n \div 4) + 1

ToRemove(n) == IF n \div 4 < 1 THEN 1 ELSE n \div 4

\* The entry CacheThinking stores.
ThinkingEntryOwnTextOnly(thinkingText, signature, now) ==
    [ThinkingText |-> thinkingText, Signature |-> SigA, Timestamp |-> now]

ThinkingEntry(thinkingText, signature, now) ==
    [ThinkingText |-> thinkingText, Signature |-> signature, Timestamp |-> now]

\* The entries that are not expired at now.
Unexpired(entries, now) ==
    [k \in { x \in DOMAIN entries : ~(now - entries[x].Timestamp > ThinkingCacheTTL) }
        |-> entries[k]]

\* The key sets that can be the first n of the entries sorted by timestamp
\* ascending: the map is read in no fixed order and sort.Slice is not stable,
\* so entries of equal timestamp may end up in any order.
OldestChoices(entries, n) ==
    LET keys == DOMAIN entries
        ts(k) == entries[k].Timestamp
        cut == CHOOSE t \in { ts(k) : k \in keys } :
                  /\ Cardinality({ k \in keys : ts(k) < t }) < n
                  /\ Cardinality({ k \in keys : ts(k) <= t }) >= n
        below == { k \in keys : ts(k) < cut }
        ties == { k \in keys : ts(k) = cut }
    IN  { below \cup x : x \in { y \in SUBSET ties : Cardinality(y) = n - Cardinality(below) } }

\* The entries maps CacheThinking can leave, from the capacity check to the
\* insertion, all under sc.mu.Lock.
CacheThinkingOutcomes(entries, thinkingID, thinkingText, signature, now) ==
    LET new == ThinkingEntry(thinkingText, signature, now)
        swept == Unexpired(entries, now)
        n == Cardinality(DOMAIN swept)
        kept ==
            IF ~AtCapacity(Cardinality(DOMAIN entries)) THEN { entries }
            ELSE IF ~AtCapacity(n) THEN { swept }
            ELSE { [k \in (DOMAIN swept) \ gone |-> swept[k]] :
                      gone \in OldestChoices(swept, ToRemove(n)) }
    IN  { PutEntry(e, thinkingID, new) : e \in kept }

\* CacheThinking up to and including getOrCreateThinkingSession.
CacheThinkingEnter(sessionID, thinkingID, thinkingText, signature) ==
    /\ thWriter.pc = "idle"
    /\ IF CacheThinkingRejects(sessionID, thinkingID, thinkingText, signature)
       THEN UNCHANGED <<thinkingCache, thWriter>>
       ELSE /\ thinkingCache' =
                  IF thinkingCache[sessionID].present THEN thinkingCache
                  ELSE [thinkingCache EXCEPT ![sessionID] = NewBucket]
            /\ thWriter' = [pc |-> "put_locked", sessionID |-> sessionID,
                            thinkingID |-> thinkingID, thinkingText |-> thinkingText,
                            signature |-> signature, attached |-> TRUE]
    /\ UNCHANGED <<thReader, thRet, thPuts, thLast>>
    /\ UNCHANGED <<clock, thOthers, evVars>>

\* CacheThinking under sc.mu.Lock.  A bucket that ClearThinkingCache removed
\* in between takes the entry where no later call finds it.
CacheThinkingLocked ==
    /\ thWriter.pc = "put_locked"
    /\ LET s == thWriter.sessionID
           id == thWriter.thinkingID
       IN
       /\ IF ~thWriter.attached THEN UNCHANGED <<thinkingCache, thLast>> ELSE
          \E e \in CacheThinkingOutcomes(thinkingCache[s].entries, id,
                                         thWriter.thinkingText, thWriter.signature, clock) :
             /\ thinkingCache' = [thinkingCache EXCEPT ![s].entries = e]
             /\ thLast' = [k \in { x \in DOMAIN thLast : x[1] # s \/ x[2] \in DOMAIN e }
                                 \cup {<<s, id>>} |->
                              IF k = <<s, id>>
                              THEN [at |-> clock,
                                    thinkingText |-> thWriter.thinkingText,
                                    signature |-> thWriter.signature]
                              ELSE thLast[k]]
       /\ thPuts' = thPuts \cup {<<s, id, thWriter.thinkingText, thWriter.signature>>}
    /\ thWriter' = ThIdle
    /\ UNCHANGED <<thReader, thRet>>
    /\ UNCHANGED <<clock, thOthers, evVars>>

\* The map after a ClearThinkingCache that forgets every session.
AfterClearAll(sessionID) == [s \in DOMAIN thinkingCache |-> NoBucket]

\* The map after ClearThinkingCache: thinkingCache.Delete(sessionID), or the
\* Delete of every key for the empty session id.
AfterClear(sessionID) ==
    [s \in DOMAIN thinkingCache |->
        IF sessionID = EmptyString \/ s = sessionID THEN NoBucket ELSE thinkingCache[s]]

\* ClearThinkingCache: a caller that already holds a cleared bucket keeps
\* that bucket, which is no longer the one a later CacheThinking creates.
ClearThinkingCache(sessionID) ==
    /\ LET gone == IF sessionID = EmptyString THEN ThSessions ELSE {sessionID} IN
       /\ thinkingCache' = AfterClear(sessionID)
       /\ thLast' = [k \in { x \in DOMAIN thLast : x[1] \notin gone } |-> thLast[k]]
       /\ thReader' = IF thReader.pc = "get_delete" /\ thReader.sessionID \in gone
                      THEN [thReader EXCEPT !.attached = FALSE]
                      ELSE thReader
       /\ thWriter' = IF thWriter.pc = "put_locked" /\ thWriter.sessionID \in gone
                      THEN [thWriter EXCEPT !.attached = FALSE]
                      ELSE thWriter
    /\ UNCHANGED <<thRet, thPuts>>
    /\ UNCHANGED <<clock, thOthers, evVars>>

\* What the reader's call returned: GetCachedThinking's entry or nil, and for
\* a translation whether extractThinkingFromContent emitted a thinking part
\* from it.  due is what the last CacheThinking of the key called for when
\* the entry was read.
ThRet(op, sessionID, thinkingID, found, entry, due) ==
    [op |-> op, sessionID |-> sessionID, thinkingID |-> thinkingID,
     found |-> found, ThinkingText |-> entry.ThinkingText, Signature |-> entry.Signature,
     due |-> IF op = "get" THEN due ELSE NoPut,
     restored |-> /\ op = "translate"
                  /\ found
                  /\ HasValidSignature(TranslateModelName, entry.Signature)]

NoEntry == [ThinkingText |-> EmptyString, Signature |-> EmptyString, Timestamp |-> 0]

\* The last CacheThinking of the key since it was last cleared or evicted,
\* and whether no more than the TTL has passed since.
LastPut(sessionID, thinkingID, now) ==
    IF <<sessionID, thinkingID>> \in DOMAIN thLast
    THEN LET last == thLast[<<sessionID, thinkingID>>] IN
         [stored |-> TRUE, live |-> now - last.at <= ThinkingCacheTTL,
          thinkingText |-> last.thinkingText, signature |-> last.signature]
    ELSE NoPut

\* GetCachedThinking through the expiry check: the read under sc.mu.RLock and
\* time.Since(entry.Timestamp) > ThinkingCacheTTL.
GetCachedThinkingRead(op, sessionID, thinkingID) ==
    /\ thReader.pc = "idle"
    /\ LET due == LastPut(sessionID, thinkingID, clock)
           miss == /\ thRet' = ThRet(op, sessionID, thinkingID, FALSE, NoEntry, due)
                   /\ UNCHANGED thReader
       IN
       IF sessionID = EmptyString \/ thinkingID = EmptyString THEN miss
       ELSE IF ~thinkingCache[sessionID].present THEN miss
       ELSE LET entries == thinkingCache[sessionID].entries IN
            IF thinkingID \notin DOMAIN entries THEN miss
            ELSE IF clock - entries[thinkingID].Timestamp > ThinkingCacheTTL
            THEN /\ thReader' = [pc |-> "get_delete", op |-> op, sessionID |-> sessionID,
                                 thinkingID |-> thinkingID,
                                 due |-> IF op = "get" THEN due ELSE NoPut,
                                 attached |-> TRUE]
                 /\ UNCHANGED thRet
            ELSE /\ thRet' = ThRet(op, sessionID, thinkingID, TRUE, entries[thinkingID], due)
                 /\ UNCHANGED thReader
    /\ UNCHANGED <<thinkingCache, thWriter, thPuts, thLast>>
    /\ UNCHANGED <<clock, thOthers, evVars>>

\* GetCachedThinking after the expiry check: sc.mu.Lock, delete, return nil.
GetCachedThinkingDelete ==
    /\ thReader.pc = "get_delete"
    /\ thinkingCache' =
          IF thReader.attached
          THEN [thinkingCache EXCEPT ![thReader.sessionID].entries =
                   DeleteEntry(@, thReader.thinkingID)]
          ELSE thinkingCache
    /\ thRet' = ThRet(thReader.op, thReader.sessionID, thReader.thinkingID, FALSE,
                      NoEntry, thReader.due)
    /\ thReader' = ThIdle
    /\ UNCHANGED <<thWriter, thPuts, thLast>>
    /\ UNCHANGED <<clock, thOthers, evVars>>

ThTick == Tick /\ UNCHANGED <<thVars, thOthers, evVars>>

ThNext ==
    \/ \E in \in ThPutInputs :
          CacheThinkingEnter(in.sessionID, in.thinkingID, in.thinkingText, in.signature)
    \/ CacheThinkingLocked
    \/ \E s \in {EmptyString} \cup ThSessions : ClearThinkingCache(s)
    \/ \E op \in {"get", "translate"}, in \in ThGetInputs :
          GetCachedThinkingRead(op, in[1], in[2])
    \/ GetCachedThinkingDelete
    \/ ThTick

\* C1: every thinking part the translation restores from a thinkId marker
\* carries a thinking text and a signature that one CacheThinking call stored
\* together under the marker's session id and thinking id, also when another
\* CacheThinking of the same key is running.
C1_RestoredPairStoredTogether ==
    (thRet.op = "translate" /\ thRet.restored) =>
        <<thRet.sessionID, thRet.thinkingID, thRet.ThinkingText, thRet.Signature>> \in thPuts

\* A part was restored while a CacheThinking of the same key with another
\* text and signature was between its entry and its locked section, and an
\* earlier call had already stored a third pair under the key.
C1_RestoredWhilePutting ==
    /\ thRet.op = "translate"
    /\ thRet.restored
    /\ thWriter.pc = "put_locked"
    /\ thWriter.sessionID = thRet.sessionID
    /\ thWriter.thinkingID = thRet.thinkingID
    /\ thWriter.thinkingText # thRet.ThinkingText
    /\ thWriter.signature # thRet.Signature
    /\ \E p \in thPuts : /\ p[1] = thRet.sessionID
                         /\ p[2] = thRet.thinkingID
                         /\ p[3] # thRet.ThinkingText

\* C2: a GetCachedThinking of a key whose last CacheThinking has not been
\* followed by another put, a clear or an eviction of the key returns that
\* call's text and signature when at most the TTL has passed since, and
\* nothing when more has, whatever gets happened in between.
C2_GetFollowsLastPut ==
    (thRet.op = "get" /\ thRet.due.stored) =>
        IF thRet.due.live
        THEN /\ thRet.found
             /\ thRet.ThinkingText = thRet.due.thinkingText
             /\ thRet.Signature = thRet.due.signature
        ELSE ~thRet.found

\* C8: a CacheThinking call with an empty session id, thinking id, thinking
\* text or signature leaves the cache as it was.
C8_NoOpOnAnyEmptyInput ==
    [][ ( /\ thWriter.pc = "put_locked"
          /\ thWriter'.pc = "idle"
          /\ \/ thWriter.sessionID = EmptyString
             \/ thWriter.thinkingID = EmptyString
             \/ thWriter.thinkingText = EmptyString
             \/ thWriter.signature = EmptyString )
        => thinkingCache' = thinkingCache ]_vars

\* C24: whatever CacheThinking calls run beside it, the delete of a
\* GetCachedThinking never removes an entry that is not expired when it is
\* deleted: an entry stored again after the get read the expired one stays.
C24_GetDeletesOnlyExpired ==
    [][ ( /\ thReader.pc = "get_delete"
          /\ thReader'.pc = "idle"
          /\ thReader.attached
          /\ thReader.thinkingID \in DOMAIN thinkingCache[thReader.sessionID].entries )
        => clock - thinkingCache[thReader.sessionID].entries[thReader.thinkingID].Timestamp
              > ThinkingCacheTTL ]_vars

----------------------------------------------------------------------------
(* Thinking cache: one session filled by one caller *)

MaxEvictPuts == 126

Digits == <<"0", "1", "2", "3", "4", "5", "6", "7", "8", "9">>

\* The thinking id of the n-th call, distinct for distinct n.
IdOf(n) ==
    <<"i", Digits[((n \div 100) % 10) + 1], Digits[((n \div 10) % 10) + 1], Digits[(n % 10) + 1]>>

EvInit == evCount = 0 /\ evJumped = FALSE

\* A whole CacheThinking call of a caller that runs alone; the next call
\* reads a later time.Now().
CacheThinking(sessionID, thinkingID, thinkingText, signature) ==
    /\ evCount < MaxEvictPuts
    /\ IF CacheThinkingRejects(sessionID, thinkingID, thinkingText, signature)
       THEN UNCHANGED thinkingCache
       ELSE LET sc == IF thinkingCache[sessionID].present
                      THEN thinkingCache[sessionID] ELSE NewBucket
            IN  \E e \in CacheThinkingOutcomes(sc.entries, thinkingID, thinkingText,
                                                signature, clock) :
                   thinkingCache' = [thinkingCache EXCEPT ![sessionID] =
                                        [present |-> TRUE, entries |-> e]]
    /\ evCount' = evCount + 1
    /\ clock' = clock + 1
    /\ UNCHANGED <<thWriter, thReader, thRet, thPuts, thLast, evJumped, thOthers>>

\* The caller pauses until everything stored so far has expired.
EvictPause ==
    /\ ~evJumped
    /\ evJumped' = TRUE
    /\ clock' = clock + ThinkingCacheTTL + 1
    /\ UNCHANGED <<thVars, evCount, thOthers>>

EvictNext ==
    \/ CacheThinking(Session1, IdOf(evCount + 1), TextOne, SigA)
    \/ EvictPause

Held(sessionID) == DOMAIN thinkingCache[sessionID].entries

\* C6 as stated: the 101st CacheThinking of distinct ids into a session whose
\* entries are all unexpired evicts exactly the 26 oldest.
C6_Evicts26Oldest ==
    (evCount = 101 /\ ~evJumped) => Held(Session1) = { IdOf(n) : n \in 27..101 }

\* C6: the 101st CacheThinking of distinct ids into a session whose entries
\* are all unexpired evicts exactly the 25 oldest, a quarter of the 100 held.
C6_Evicts25Oldest ==
    (evCount = 101 /\ ~evJumped) => Held(Session1) = { IdOf(n) : n \in 26..101 }

C6_After101Puts ==
    /\ evCount = 101
    /\ ~evJumped
    /\ Cardinality(Held(Session1)) = 76
    /\ IdOf(25) \notin Held(Session1)

\* C7: a session bucket never holds more than 100 entries.
C7_AtMost100PerSession ==
    \A s \in ThSessions : Cardinality(Held(s)) <= MaxThinkingEntriesPerSession

\* The bucket is full again after an eviction made room.
C7_FullAfterEviction ==
    /\ evCount > MaxThinkingEntriesPerSession
    /\ Cardinality(Held(Session1)) = MaxThinkingEntriesPerSession
    /\ IdOf(1) \notin Held(Session1)

----------------------------------------------------------------------------
(* Rate-limit store *)

\* 7 * 24 * time.Hour, in minutes
maxRecordAge == 10080

MaxLog == 2

Savers == {1, 2}

\* A RateLimitRecord: the timestamp, the source, the type, and of either
\* dialect the fields IsEmpty reads and one it does not.
RateLimitRecord(type, timestamp, status5h, requestsLimit) ==
    [Timestamp |-> timestamp, Source |-> EmptyString, Type |-> type,
     Status5h |-> status5h, Status7d |-> EmptyString, UnifiedStatus |-> EmptyString,
     OrganizationID |-> EmptyString,
     RequestsLimit |-> requestsLimit, RequestsRemaining |-> 0, TokensLimit |-> 0,
     InputTokensLimit |-> 0, OutputTokensLimit |-> 0]

unified == <<"u", "n", "i", "f", "i", "e", "d">>

standard == <<"s", "t", "a", "n", "d", "a", "r", "d">>

allowed == <<"a", "l", "l", "o", "w", "e", "d">>

\* A timestamp exactly maxRecordAge before the start.
StaleTime == StartClock - maxRecordAge

\* Record's arguments: a unified and a standard record with data, the
\* standard one too old to be kept, and one empty record of either type.
StoreInputs ==
    { RateLimitRecord(unified, 0, allowed, 0),
      RateLimitRecord(standard, StaleTime, EmptyString, 100),
      RateLimitRecord(unified, 0, EmptyString, 100),
      RateLimitRecord(standard, 0, allowed, 0) }

IsEmpty(r) ==
    IF r.Type = unified
    THEN r.Status5h = EmptyString /\ r.Status7d = EmptyString /\ r.UnifiedStatus = EmptyString
    ELSE /\ r.RequestsLimit = 0 /\ r.TokensLimit = 0
         /\ r.InputTokensLimit = 0 /\ r.OutputTokensLimit = 0

\* Record's early return.
RecordRejectsNothing(r) == FALSE

RecordRejects(r) == IsEmpty(r)

\* r.Timestamp.After(cutoff)
AfterOrAt(t, cutoff) == t >= cutoff

After(t, cutoff) == t > cutoff

RetainedAll(rs, now) == rs

\* cleanupLocked, and the filter of Save: the records newer than maxRecordAge.
Retained(rs, now) ==
    SelectSeq(rs, LAMBDA r : After(r.Timestamp, now - maxRecordAge))

\* len(s.records)%100 == 0
SweepDueNever(n) == FALSE

SweepDue(n) == n % 100 = 0

LatestOldest ==
    IF Len(records) = 0 THEN [found |-> FALSE] ELSE [found |-> TRUE, r |-> records[1]]

\* Latest(): nil, or a copy of the last record.
Latest ==
    IF Len(records) = 0 THEN [found |-> FALSE]
    ELSE [found |-> TRUE, r |-> records[Len(records)]]

\* The fields tagged omitempty, which json.Marshal leaves out when zero.
OmitEmptyFields ==
    { "Status5h", "Status7d", "UnifiedStatus", "OrganizationID",
      "RequestsLimit", "RequestsRemaining", "TokensLimit",
      "InputTokensLimit", "OutputTokensLimit" }

ZeroOf(field) ==
    IF field \in { "Status5h", "Status7d", "UnifiedStatus", "OrganizationID", "Source", "Type" }
    THEN EmptyString ELSE 0

AllFields == OmitEmptyFields \cup { "Timestamp", "Source", "Type" }

\* json.MarshalIndent of one record: the object's keys and values.
Marshal(r) ==
    [f \in { x \in AllFields : x \notin OmitEmptyFields \/ r[x] # ZeroOf(x) } |-> r[f]]

\* json.Unmarshal of one record: absent keys leave the zero value.
Unmarshal(obj) ==
    [f \in AllFields |-> IF f \in DOMAIN obj THEN obj[f] ELSE ZeroOf(f)]

MarshalSnapshot(rs) == [i \in 1..Len(rs) |-> Marshal(rs[i])]

UnmarshalSnapshot(data) == [i \in 1..Len(data) |-> Unmarshal(data[i])]

\* What a path holds: nothing, a file of length zero, a file whose bytes are
\* not one complete snapshot, or a complete snapshot.
Absent == [state |-> "absent", data |-> << >>]

Truncated == [state |-> "empty", data |-> << >>]

Broken == [state |-> "broken", data |-> << >>]

Full(data) == [state |-> "full", data |-> data]

\* An open file after all of data was written at its start.  Bytes that
\* another writer put there since this one's truncation stay beyond the end of
\* data when they reach further.
Written(content, data) ==
    IF content.state = "empty" \/ content = Full(data) THEN { Full(data) }
    ELSE { Full(data), Broken }

\* An open file after a write that failed: nothing or a part was written.
PartlyWritten(content) == { content, Broken }

SaverIdle == [pc |-> "idle", data |-> << >>, fd |-> "none"]

StoreInit ==
    /\ records = << >>
    /\ file = Absent
    /\ tmp = Absent
    /\ savers = [i \in Savers |-> SaverIdle]
    /\ storeLast = [valid |-> FALSE]
    /\ loadRet = [ret |-> "none", turn |-> FALSE]

\* count%10 == 0
SaveDueNever(count) == FALSE

SaveDue(count) == count % 10 = 0

\* Record(r) up to its return; spawned tells whether it started a Save in a
\* goroutine.  That Save is one of the savers, which start at any time.
Record(r) ==
    IF RecordRejects(r)
    THEN UNCHANGED <<records, storeLast>>
    ELSE LET stored == IF r.Timestamp = 0 THEN [r EXCEPT !.Timestamp = clock] ELSE r
             appended == Append(records, stored)
             kept == IF SweepDue(Len(appended)) THEN Retained(appended, clock) ELSE appended
         IN  /\ records' = kept
             /\ storeLast' = [valid |-> TRUE, r |-> stored, count |-> Len(appended),
                              now |-> clock, spawned |-> SaveDue(Len(kept))]

\* Load: a missing or empty file changes nothing, an undecodable one is an
\* error, a snapshot replaces the records and is swept.
Load ==
    /\ IF file.state = "full"
       THEN /\ records' = Retained(UnmarshalSnapshot(file.data), clock)
            /\ storeLast' = [valid |-> FALSE]
       ELSE UNCHANGED <<records, storeLast>>
    /\ loadRet' = [ret |-> IF file.state = "broken" THEN "error" ELSE "nil",
                   turn |-> ~loadRet.turn]
    /\ UNCHANGED <<file, tmp, savers, storeOthers>>

\* Save from the read lock through json.MarshalIndent and os.MkdirAll, which
\* may fail and end the call.
SaveBegin(i) ==
    /\ savers[i].pc = "idle"
    /\ \E ok \in BOOLEAN :
          savers' = [savers EXCEPT ![i] =
                        IF ok THEN [pc |-> "open_tmp",
                                    data |-> MarshalSnapshot(Retained(records, clock)),
                                    fd |-> "none"]
                        ELSE SaverIdle]
    /\ UNCHANGED <<records, file, tmp, storeLast, loadRet, storeOthers>>

\* os.WriteFile(tmpFile): the open, which creates or truncates the file.  When
\* it fails Save turns to the path itself.
SaveOpenTmp(i) ==
    /\ savers[i].pc = "open_tmp"
    /\ \E ok \in BOOLEAN :
          IF ok
          THEN /\ tmp' = Truncated
               /\ savers' = [savers EXCEPT ![i].pc = "write_tmp", ![i].fd = "tmp"]
          ELSE /\ savers' = [savers EXCEPT ![i].pc = "open_direct"]
               /\ UNCHANGED tmp
    /\ UNCHANGED <<records, file, storeLast, loadRet, storeOthers>>

\* The write through an open descriptor reaches the file it was opened on,
\* under whatever name that file has by now.
WriteThrough(i, ok) ==
    LET contents(c) == IF ok THEN Written(c, savers[i].data) ELSE PartlyWritten(c) IN
    CASE savers[i].fd = "tmp" -> \E c \in contents(tmp) : tmp' = c /\ UNCHANGED file
      [] savers[i].fd = "path" -> \E c \in contents(file) : file' = c /\ UNCHANGED tmp
      [] OTHER -> UNCHANGED <<file, tmp>>

\* os.WriteFile(tmpFile): the write and close.  When it fails Save turns to
\* the path itself.
SaveWriteTmp(i) ==
    /\ savers[i].pc = "write_tmp"
    /\ \E ok \in BOOLEAN :
          /\ WriteThrough(i, ok)
          /\ savers' = [savers EXCEPT ![i].pc = IF ok THEN "rename" ELSE "open_direct",
                                      ![i].fd = "none"]
    /\ UNCHANGED <<records, storeLast, loadRet, storeOthers>>

\* os.Rename(tmpFile, filePath), which fails when another Save has moved or
\* removed the temporary file and may fail otherwise; after a failure
\* os.Remove(tmpFile), then the path itself.  A descriptor another Save holds
\* follows its file.
SaveRename(i) ==
    /\ savers[i].pc = "rename"
    /\ \E ok \in { b \in BOOLEAN : b => tmp.state # "absent" } :
          IF ok
          THEN /\ file' = tmp
               /\ tmp' = Absent
               /\ savers' = [j \in Savers |->
                               IF j = i THEN SaverIdle
                               ELSE IF savers[j].fd = "tmp" THEN [savers[j] EXCEPT !.fd = "path"]
                               ELSE IF savers[j].fd = "path" THEN [savers[j] EXCEPT !.fd = "gone"]
                               ELSE savers[j]]
          ELSE /\ tmp' = Absent
               /\ savers' = [j \in Savers |->
                               IF j = i THEN [savers[i] EXCEPT !.pc = "open_direct"]
                               ELSE IF savers[j].fd = "tmp" THEN [savers[j] EXCEPT !.fd = "gone"]
                               ELSE savers[j]]
               /\ UNCHANGED file
    /\ UNCHANGED <<records, storeLast, loadRet, storeOthers>>

\* os.WriteFile(filePath): the open, which creates or truncates the file.
SaveOpenDirect(i) ==
    /\ savers[i].pc = "open_direct"
    /\ \E ok \in BOOLEAN :
          IF ok
          THEN /\ file' = Truncated
               /\ savers' = [savers EXCEPT ![i].pc = "write_direct", ![i].fd = "path"]
          ELSE /\ savers' = [savers EXCEPT ![i] = SaverIdle]
               /\ UNCHANGED file
    /\ UNCHANGED <<records, tmp, storeLast, loadRet, storeOthers>>

\* os.WriteFile(filePath): the write and close, and Save's return.
SaveWriteDirect(i) ==
    /\ savers[i].pc = "write_direct"
    /\ \E ok \in BOOLEAN : WriteThrough(i, ok)
    /\ savers' = [savers EXCEPT ![i] = SaverIdle]
    /\ UNCHANGED <<records, storeLast, loadRet, storeOthers>>

StoreRecord ==
    \E r \in StoreInputs :
        /\ Len(records) < MaxLog
        /\ Record(r)
        /\ UNCHANGED <<file, tmp, savers, loadRet, storeOthers>>

StoreNext ==
    \/ StoreRecord
    \/ Load
    \/ \E i \in Savers : SaveBegin(i)
    \/ \E i \in Savers : SaveOpenTmp(i)
    \/ \E i \in Savers : SaveWriteTmp(i)
    \/ \E i \in Savers : SaveRename(i)
    \/ \E i \in Savers : SaveOpenDirect(i)
    \/ \E i \in Savers : SaveWriteDirect(i)

\* C3 as stated: a reader of the file path finds no file or one complete
\* snapshot, whatever Save calls are running and whichever way they write.
C3_ReaderSeesCompleteFile == file.state \in { "absent", "full" }

\* C5: no record of the in-memory log is empty.
C5_NoEmptyRecordInLog == \A n \in 1..Len(records) : ~IsEmpty(records[n])

\* The log was loaded from a snapshot a Save wrote, after Record had turned
\* an empty record away.
C5_LoadedFromSavedSnapshot ==
    /\ Len(records) > 0
    /\ ~storeLast.valid
    /\ file.state = "full"
    /\ records = UnmarshalSnapshot(file.data)

----------------------------------------------------------------------------
(* Rate-limit store: one caller filling the log *)

MaxSweepLog == 102

\* Record's arguments: a record that takes the time of the call and one that
\* brings a timestamp maxRecordAge old.
SweepInputs ==
    { RateLimitRecord(unified, 0, allowed, 0),
      RateLimitRecord(standard, StaleTime, EmptyString, 100) }

SweepRecord ==
    \E r \in SweepInputs :
        /\ Len(records) < MaxSweepLog
        /\ r.Timestamp = StaleTime =>
              \A n \in 1..Len(records) : records[n].Timestamp # StaleTime
        /\ Record(r)
        /\ UNCHANGED <<file, tmp, savers, loadRet, storeOthers>>

SweepNext == SweepRecord

\* C4 as stated: after a Record of a non-empty record, with no other Record
\* or Load since, Latest returns that record, whatever its timestamp and
\* however many records the store holds.
C4_LatestIsLastRecorded ==
    storeLast.valid => (Latest.found /\ Latest.r = storeLast.r)

\* C4: after a Record of a non-empty record r, with no other Record or Load
\* since, Latest returns r, its timestamp set to the time of the call when it
\* was zero, unless the append brought the log to a multiple of 100 records
\* and r is not newer than seven days: then the sweep has removed r, and
\* Latest returns nothing or a record newer than seven days.
C4_LatestIsLastRecordedUnlessSwept ==
    storeLast.valid =>
        IF storeLast.count % 100 = 0 /\ storeLast.r.Timestamp <= storeLast.now - 10080
        THEN Latest.found => Latest.r.Timestamp > storeLast.now - 10080
        ELSE Latest.found /\ Latest.r = storeLast.r

\* The hundredth record was too old and the sweep it set off removed it.
C4_LastRecordSwept ==
    /\ storeLast.valid
    /\ storeLast.count = 100
    /\ storeLast.r.Timestamp = StaleTime
    /\ Len(records) = 99

----------------------------------------------------------------------------
(* Rate-limit store: loading the file an earlier run left *)

\* Records of a file: two newer than maxRecordAge and one exactly that old.
FileRecords ==
    { RateLimitRecord(unified, StartClock - 1, allowed, 0),
      RateLimitRecord(standard, StartClock - 2, EmptyString, 100),
      RateLimitRecord(standard, StaleTime, EmptyString, 100) }

FileContents ==
    { Absent, Truncated, Broken, Full(<< >>) }
    \cup { Full(MarshalSnapshot(<<r>>)) : r \in FileRecords }
    \cup { Full(MarshalSnapshot(<<r1, r2>>)) : r1 \in FileRecords, r2 \in FileRecords }

\* The file as it is found at the next start.
FileFound(content) ==
    /\ file' = content
    /\ UNCHANGED <<records, tmp, savers, storeLast, loadRet, storeOthers>>

LoadNext ==
    \/ StoreRecord
    \/ \E c \in FileContents : FileFound(c)
    \/ Load

\* C13 as stated: Load of a missing file succeeds and leaves the log; Load of
\* content that is not a JSON document returns a decode error and leaves the
\* log; Load of a snapshot makes the log the file's records newer than seven
\* days, in file order.
C13_LoadOutcomes ==
    [][ loadRet'.turn # loadRet.turn =>
          CASE file.state = "absent" -> loadRet'.ret = "nil" /\ records' = records
            [] file.state \in { "empty", "broken" } ->
                  loadRet'.ret = "error" /\ records' = records
            [] OTHER ->
                  /\ loadRet'.ret = "nil"
                  /\ records' = SelectSeq(UnmarshalSnapshot(file.data),
                                          LAMBDA r : r.Timestamp > clock - 10080) ]_vars

\* C13: as above, but Load of a file of length zero succeeds and leaves the
\* log, like Load of a missing file.
C13_LoadOutcomesEmptyFileSucceeds ==
    [][ loadRet'.turn # loadRet.turn =>
          CASE file.state \in { "absent", "empty" } ->
                  loadRet'.ret = "nil" /\ records' = records
            [] file.state = "broken" -> loadRet'.ret = "error" /\ records' = records
            [] OTHER ->
                  /\ loadRet'.ret = "nil"
                  /\ records' = SelectSeq(UnmarshalSnapshot(file.data),
                                          LAMBDA r : r.Timestamp > clock - 10080) ]_vars

\* A Load has replaced the log by the one record of a two-record file that is
\* newer than seven days.
C13_LoadedAndSwept ==
    /\ loadRet.ret = "nil"
    /\ file.state = "full"
    /\ Len(file.data) = 2
    /\ Len(records) = 1
    /\ ~storeLast.valid
    /\ records[1] = Unmarshal(file.data[2])

----------------------------------------------------------------------------
(* Rate-limit store: QueryByWindow *)

MaxQueryLog == 3

unknown == <<"u", "n", "k", "n", "o", "w", "n">>

SourceA == <<"a", "@", "x">>

\* Record's arguments: with and without a source, of either dialect, 5 and 10
\* minutes old.
QueryInputs ==
    { [RateLimitRecord(unified, StartClock - age, allowed, 0) EXCEPT !.Source = src] :
         age \in {5, 10}, src \in { EmptyString, SourceA } }
    \cup
    { [RateLimitRecord(standard, StartClock - age, EmptyString, 100) EXCEPT !.Source = src] :
         age \in {5, 10}, src \in { EmptyString, SourceA } }

\* The windows asked for, in minutes.
QueryWindows == {4, 5, 10}

\* r.Timestamp.Before(cutoff) skips the record.
InWindowStrictly(t, cutoff) == t > cutoff

InWindow(t, cutoff) == ~(t < cutoff)

NoRecord == [found |-> FALSE]

\* One turn of a loop that takes the last record of the window for the
\* latest.
QueryStepLast(acc, r, cutoff) ==
    IF ~InWindow(r.Timestamp, cutoff) THEN acc
    ELSE LET source == IF r.Source = EmptyString THEN unknown ELSE r.Source
             su == IF source \in DOMAIN acc.BySource THEN acc.BySource[source]
                   ELSE [Requests |-> 0, LatestLimit |-> NoRecord]
             newer == \/ ~su.LatestLimit.found
                      \/ r.Timestamp > su.LatestLimit.r.Timestamp
             su2 == [Requests |-> su.Requests + 1,
                     LatestLimit |-> IF newer THEN [found |-> TRUE, r |-> r]
                                     ELSE su.LatestLimit]
         IN  [TotalRequests |-> acc.TotalRequests + 1,
              latestTime |-> r.Timestamp,
              latestRecord |-> [found |-> TRUE, r |-> r],
              BySource |-> [k \in DOMAIN acc.BySource \cup {source} |->
                              IF k = source THEN su2 ELSE acc.BySource[k]]]

\* One turn of QueryByWindow's loop.
QueryStep(acc, r, cutoff) ==
    IF ~InWindow(r.Timestamp, cutoff) THEN acc
    ELSE LET source == IF r.Source = EmptyString THEN unknown ELSE r.Source
             su == IF source \in DOMAIN acc.BySource THEN acc.BySource[source]
                   ELSE [Requests |-> 0, LatestLimit |-> NoRecord]
             newer == \/ ~su.LatestLimit.found
                      \/ r.Timestamp > su.LatestLimit.r.Timestamp
             su2 == [Requests |-> su.Requests + 1,
                     LatestLimit |-> IF newer THEN [found |-> TRUE, r |-> r]
                                     ELSE su.LatestLimit]
         IN  [TotalRequests |-> acc.TotalRequests + 1,
              latestTime |-> IF r.Timestamp > acc.latestTime THEN r.Timestamp
                             ELSE acc.latestTime,
              latestRecord |-> IF r.Timestamp > acc.latestTime THEN [found |-> TRUE, r |-> r]
                               ELSE acc.latestRecord,
              BySource |-> [k \in DOMAIN acc.BySource \cup {source} |->
                              IF k = source THEN su2 ELSE acc.BySource[k]]]

RECURSIVE QueryLoop(_, _, _)
QueryLoop(rs, cutoff, acc) ==
    IF rs = << >> THEN acc
    ELSE QueryLoop(Tail(rs), cutoff, QueryStep(acc, Head(rs), cutoff))

\* QueryByWindow(d) at time now: the summary, its Unified or LatestLimit
\* part taken from the record of the greatest timestamp.
QueryByWindow(rs, d, now) ==
    LET acc == QueryLoop(rs, now - d,
                         [TotalRequests |-> 0, latestTime |-> 0,
                          latestRecord |-> NoRecord, BySource |-> << >>])
        isUnified == acc.latestRecord.found /\ acc.latestRecord.r.Type = unified
    IN  [TotalRequests |-> acc.TotalRequests,
         Unified |-> IF isUnified THEN acc.latestRecord ELSE NoRecord,
         LatestLimit |-> IF isUnified THEN NoRecord ELSE acc.latestRecord,
         BySource |-> acc.BySource]

QueryInit == summary = [done |-> FALSE]

QueryRecord ==
    \E r \in QueryInputs :
        /\ Len(records) < MaxQueryLog
        /\ Record(r)
        /\ summary' = [done |-> FALSE]
        /\ UNCHANGED <<file, tmp, savers, loadRet, queryOthers>>

Query(d) ==
    /\ summary' = [done |-> TRUE, d |-> d, s |-> QueryByWindow(records, d, clock)]
    /\ UNCHANGED <<storeVars, queryOthers>>

QueryNext ==
    \/ QueryRecord
    \/ \E d \in QueryWindows : Query(d)

RECURSIVE SumRequests(_, _)
SumRequests(bySource, keys) ==
    IF keys = {} THEN 0
    ELSE LET k == CHOOSE x \in keys : TRUE
         IN  bySource[k].Requests + SumRequests(bySource, keys \ {k})

\* C14: QueryByWindow(d) counts the records whose timestamp is at or after
\* now minus d; the per-source counts add up to that total, records without a
\* source count under "unknown", and each source's latest record is a record
\* of that source in the window whose timestamp no other one exceeds.
C14_QueryByWindow ==
    summary.done =>
        LET inWindow == { i \in 1..Len(records) : records[i].Timestamp >= clock - summary.d }
            key(i) == IF records[i].Source = EmptyString THEN unknown ELSE records[i].Source
            by == summary.s.BySource
        IN  /\ summary.s.TotalRequests = Cardinality(inWindow)
            /\ SumRequests(by, DOMAIN by) = summary.s.TotalRequests
            /\ DOMAIN by = { key(i) : i \in inWindow }
            /\ \A k \in DOMAIN by :
                  LET mine == { i \in inWindow : key(i) = k } IN
                  /\ by[k].Requests = Cardinality(mine)
                  /\ by[k].LatestLimit.found
                  /\ \E i \in mine : records[i] = by[k].LatestLimit.r
                  /\ \A i \in mine : records[i].Timestamp <= by[k].LatestLimit.r.Timestamp

\* A query whose window ends exactly at the older records' timestamp counted
\* three records, under a named source and under "unknown".
C14_WindowEdgeCounted ==
    /\ summary.done
    /\ summary.d = 10
    /\ summary.s.TotalRequests = 3
    /\ DOMAIN summary.s.BySource = { unknown, SourceA }
    /\ \E i \in 1..Len(records) : records[i].Timestamp = clock - 10

----------------------------------------------------------------------------
(* Rate-limit auto-save *)

MaxStarts == 2

MaxLateSaves == 2

Stoppers == {1, 2}

WriterIds == 1..MaxStarts

\* A goroutine of StartRateLimitAutoSave: not started, waiting in its select,
\* inside Save, or returned; whether its context is cancelled; whether its
\* ticker's channel holds a tick; and the Saves it began after the cancel.
NoWriter == [pc |-> "none", cancelled |-> FALSE, tick |-> FALSE, lateSaves |-> 0]

AutoInit ==
    /\ rlAutoSaveCancel = 0
    /\ parentDone = FALSE
    /\ writers = [w \in WriterIds |-> NoWriter]
    /\ stoppers = [c \in Stoppers |-> "idle"]

\* rlAutoSaveCancel(), when it is not nil.
CancelCurrentNever(ws, cur) == ws

CancelCurrent(ws, cur) ==
    [w \in WriterIds |-> IF w = cur THEN [ws[w] EXCEPT !.cancelled = TRUE] ELSE ws[w]]

\* StartRateLimitAutoSave, all of it under rlAutoSaveMu: the goroutine it
\* starts gets a context that is cancelled from the start when its parent is.
StartRateLimitAutoSave ==
    /\ \E w \in WriterIds :
          /\ writers[w].pc = "none"
          /\ \A v \in WriterIds : v < w => writers[v].pc # "none"
          /\ writers' = [CancelCurrent(writers, rlAutoSaveCancel) EXCEPT
                            ![w] = [pc |-> "select", cancelled |-> parentDone,
                                    tick |-> FALSE, lateSaves |-> 0]]
          /\ rlAutoSaveCancel' = w
    /\ UNCHANGED <<parentDone, stoppers, autoOthers>>

\* The caller of StartRateLimitAutoSave cancels the context it passed.
CancelParent ==
    /\ ~parentDone
    /\ parentDone' = TRUE
    /\ writers' = [w \in WriterIds |->
                     IF writers[w].pc = "none" THEN writers[w]
                     ELSE [writers[w] EXCEPT !.cancelled = TRUE]]
    /\ UNCHANGED <<rlAutoSaveCancel, stoppers, autoOthers>>

\* StopRateLimitAutoSave under rlAutoSaveMu.
StopCancel(c) ==
    /\ stoppers[c] = "idle"
    /\ writers' = CancelCurrent(writers, rlAutoSaveCancel)
    /\ rlAutoSaveCancel' = 0
    /\ stoppers' = [stoppers EXCEPT ![c] = "save"]
    /\ UNCHANGED <<parentDone, autoOthers>>

\* StopRateLimitAutoSave's Save and return.  What a Save does to the file is
\* the savers' part of the model.
StopSave(c) ==
    /\ stoppers[c] = "save"
    /\ stoppers' = [stoppers EXCEPT ![c] = "idle"]
    /\ UNCHANGED <<rlAutoSaveCancel, parentDone, writers, autoOthers>>

\* The ticker sends on its channel, which holds one tick.
TickerFires(w) ==
    /\ writers[w].pc \in { "select", "save" }
    /\ ~writers[w].tick
    /\ writers' = [writers EXCEPT ![w].tick = TRUE]
    /\ UNCHANGED <<rlAutoSaveCancel, parentDone, stoppers, autoOthers>>

\* select takes case <-ticker.C, which it may also do when ctx.Done() is
\* ready: the choice among ready cases is random.
WriterTakesTick(w) ==
    /\ writers[w].pc = "select"
    /\ writers[w].tick
    /\ writers[w].cancelled => writers[w].lateSaves < MaxLateSaves
    /\ writers' = [writers EXCEPT ![w].pc = "save", ![w].tick = FALSE,
                                  ![w].lateSaves = IF writers[w].cancelled THEN @ + 1 ELSE @]
    /\ UNCHANGED <<rlAutoSaveCancel, parentDone, stoppers, autoOthers>>

\* The goroutine's Save returns.
WriterSaved(w) ==
    /\ writers[w].pc = "save"
    /\ writers' = [writers EXCEPT ![w].pc = "select"]
    /\ UNCHANGED <<rlAutoSaveCancel, parentDone, stoppers, autoOthers>>

\* select takes case <-ctx.Done().
WriterExits(w) ==
    /\ writers[w].pc = "select"
    /\ writers[w].cancelled
    /\ writers' = [writers EXCEPT ![w].pc = "exited", ![w].tick = FALSE]
    /\ UNCHANGED <<rlAutoSaveCancel, parentDone, stoppers, autoOthers>>

AutoNext ==
    \/ StartRateLimitAutoSave
    \/ CancelParent
    \/ \E c \in Stoppers : StopCancel(c)
    \/ \E c \in Stoppers : StopSave(c)
    \/ \E w \in WriterIds : TickerFires(w)
    \/ \E w \in WriterIds : WriterTakesTick(w)
    \/ \E w \in WriterIds : WriterSaved(w)
    \/ \E w \in WriterIds : WriterExits(w)

\* The goroutines run on: a Save returns, and a select whose ctx.Done() is
\* ready again and again takes that case at some time.
AutoFairness ==
    \A w \in WriterIds : WF_vars(WriterSaved(w)) /\ SF_vars(WriterExits(w))

Running(w) == writers[w].pc \in { "select", "save" }

\* C15: at most one auto-save goroutine runs with a context that is not
\* cancelled, and a StartRateLimitAutoSave leaves every goroutine started
\* before it with a cancelled context.
C15_OneLiveWriter ==
    /\ [](Cardinality({ w \in WriterIds : Running(w) /\ ~writers[w].cancelled }) <= 1)
    /\ [][ \A w \in WriterIds :
              (writers[w].pc = "none" /\ writers'[w].pc # "none") =>
                 \A v \in WriterIds : (v # w /\ writers'[v].pc # "none") =>
                                         writers'[v].cancelled ]_vars

\* A second goroutine runs uncancelled while the first, cancelled by the
\* second Start, has not yet returned.
C15_RestartedWhileFirstRuns ==
    /\ Running(1) /\ writers[1].cancelled
    /\ Running(2) /\ ~writers[2].cancelled
    /\ rlAutoSaveCancel = 2
    /\ ~parentDone

\* C16 as stated: StopRateLimitAutoSave leaves the current goroutine cancelled
\* before its one Save; every cancelled goroutine returns in the end, and
\* begins at most one Save after the cancel.
C16_StopThenExitWithinOneSave ==
    /\ [][ \A c \in Stoppers :
              (stoppers[c] = "idle" /\ stoppers'[c] = "save") =>
                 \A w \in WriterIds : writers'[w].pc # "none" => writers'[w].cancelled ]_vars
    /\ \A w \in WriterIds : (writers[w].cancelled ~> writers[w].pc = "exited")
    /\ [](\A w \in WriterIds : writers[w].lateSaves <= 1)

----------------------------------------------------------------------------
(* Rate-limit header parser *)

OrganizationIdHeader == "Anthropic-Organization-Id"

Unified5hStatusHeader == "Anthropic-Ratelimit-Unified-5h-Status"

RequestsLimitHeader == "Anthropic-Ratelimit-Requests-Limit"

RequestsRemainingHeader == "Anthropic-Ratelimit-Requests-Remaining"

TokensLimitHeader == "Anthropic-Ratelimit-Tokens-Limit"

HeaderNames ==
    { OrganizationIdHeader, Unified5hStatusHeader, RequestsLimitHeader,
      RequestsRemainingHeader, TokensLimitHeader }

\* Header values: empty, blank, a status with a capital and spaces around it,
\* and a number.
HeaderValues ==
    { EmptyString, <<" ">>, <<" ", "A", "l", "l", "o", "w", "e", "d", " ">>,
      <<"1", "0", "0">> }

\* headers.Get(name): the first value, "" when the header is absent.
Get(h, name) == IF name \in DOMAIN h THEN h[name] ELSE EmptyString

\* The white space strings.TrimSpace trims, as far as the texts hold it.
WhiteSpace == {" ", "\n", "\t", "\r"}

RECURSIVE TrimLeft(_)
TrimLeft(v) ==
    IF v # << >> /\ Head(v) \in WhiteSpace THEN TrimLeft(Tail(v)) ELSE v

RECURSIVE TrimRight(_)
TrimRight(v) ==
    IF v # << >> /\ v[Len(v)] \in WhiteSpace THEN TrimRight(SubSeq(v, 1, Len(v) - 1)) ELSE v

\* strings.TrimSpace
TrimSpace(v) == TrimRight(TrimLeft(v))

\* strings.ToLower, on the letters the header values use.
ToLower(v) == [i \in 1..Len(v) |-> IF v[i] = "A" THEN "a" ELSE v[i]]

DigitValue(c) ==
    CASE c = "0" -> 0 [] c = "1" -> 1 [] c = "2" -> 2 [] c = "3" -> 3 [] c = "4" -> 4
      [] c = "5" -> 5 [] c = "6" -> 6 [] c = "7" -> 7 [] c = "8" -> 8 [] c = "9" -> 9
      [] OTHER -> -1

RECURSIVE DecimalValue(_)
DecimalValue(v) ==
    IF v = << >> THEN 0
    ELSE 10 * DecimalValue(SubSeq(v, 1, Len(v) - 1)) + DigitValue(v[Len(v)])

\* parseIntHeader: 0 for an absent or empty header and for a value
\* strconv.ParseInt rejects.
parseIntHeader(h, name) ==
    LET v == Get(h, name) IN
    IF v = EmptyString THEN 0
    ELSE IF \E i \in 1..Len(v) : DigitValue(v[i]) < 0 THEN 0
    ELSE DecimalValue(v)

\* parseUnifiedHeaders: the fields set, and whether a header had a value.
parseUnifiedHeaders(h, r) ==
    LET org == Get(h, OrganizationIdHeader)
        st == Get(h, Unified5hStatusHeader)
    IN  [found |-> org # EmptyString \/ st # EmptyString,
         r |-> [r EXCEPT !.OrganizationID = IF org # EmptyString THEN org ELSE @,
                         !.Status5h = IF st # EmptyString THEN ToLower(TrimSpace(st)) ELSE @]]

parseStandardHeaders(h, r) ==
    [r EXCEPT !.RequestsLimit = parseIntHeader(h, RequestsLimitHeader),
              !.RequestsRemaining = parseIntHeader(h, RequestsRemainingHeader),
              !.TokensLimit = parseIntHeader(h, TokensLimitHeader)]

ParseRateLimitHeadersBothDialects(h, now) ==
    LET r == RateLimitRecord(EmptyString, now, EmptyString, 0)
        u == parseUnifiedHeaders(h, r)
    IN  IF u.found THEN [parseStandardHeaders(h, u.r) EXCEPT !.Type = unified]
        ELSE LET st == parseStandardHeaders(h, r) IN
             IF ~IsEmpty(st) THEN [st EXCEPT !.Type = standard] ELSE st

ParseRateLimitHeaders(h, now) ==
    LET r == RateLimitRecord(EmptyString, now, EmptyString, 0)
        u == parseUnifiedHeaders(h, r)
    IN  IF u.found THEN [u.r EXCEPT !.Type = unified]
        ELSE LET st == parseStandardHeaders(h, r) IN
             IF ~IsEmpty(st) THEN [st EXCEPT !.Type = standard] ELSE st

NotParsed == [done |-> FALSE]

ParseInit == headers = << >> /\ parsed = NotParsed

\* A response arrives with one more header, or another value of one.
SetHeader(name, value) ==
    /\ headers' = [n \in DOMAIN headers \cup {name} |->
                     IF n = name THEN value ELSE headers[n]]
    /\ parsed' = NotParsed
    /\ UNCHANGED parseOthers

Parse ==
    /\ parsed' = [done |-> TRUE, r |-> ParseRateLimitHeaders(headers, clock)]
    /\ UNCHANGED <<headers, parseOthers>>

ParseNext ==
    \/ \E name \in HeaderNames, value \in HeaderValues : SetHeader(name, value)
    \/ Parse

UnifiedFieldsBlank(r) == r.Status5h = EmptyString /\ r.OrganizationID = EmptyString

StandardFieldsZero(r) ==
    r.RequestsLimit = 0 /\ r.RequestsRemaining = 0 /\ r.TokensLimit = 0

----------------------------------------------------------------------------
(* Translator: the synthetic user id (claude_openai_request.go)            *)
(*                                                                         *)
(* user, account and session are package variables that                    *)
(* ConvertOpenAIRequestToClaude fills on first use, with no lock and no    *)
(* sync.Once.  Each goroutine below runs the function's preamble one       *)
(* memory access at a time; a test `x == ""` and the assignment that       *)
(* follows it are separate steps, and so are the three reads of Sprintf.   *)

Translators == {1, 2}

\* uuid.NewRandom().String(): a random UUID, here one of two.
UUIDs == {"u1", "u2"}

\* hex.EncodeToString(sha256.Sum256(b)): one digest per input, no collisions.
Sha256Hex(b) == <<"sha256", b>>

\* fmt.Sprintf("user_%s_account_%s_session_%s", user, account, session)
UserID(u, a, s) == [user |-> u, account |-> a, session |-> s]

TranslatorIdle == [pc |-> "idle", sum |-> "", id |-> UserID("", "", "")]

IdInit ==
    /\ user = ""
    /\ account = ""
    /\ session = ""

UidInit ==
    /\ translators = [t \in Translators |-> TranslatorIdle]
    /\ emitted = {}

At(t, pc) == translators[t].pc = pc

Goto(t, pc) == translators' = [translators EXCEPT ![t].pc = pc]

\* A request arrives: the goroutine enters ConvertOpenAIRequestToClaude.
ConvertEnter(t) ==
    /\ At(t, "idle")
    /\ translators' = [translators EXCEPT ![t] = [TranslatorIdle EXCEPT !.pc = "testAccount"]]
    /\ UNCHANGED <<idVars, emitted, uidOthers>>

\* if account == ""
TestAccount(t) ==
    /\ At(t, "testAccount")
    /\ Goto(t, IF account = "" THEN "setAccount" ELSE "testSession")
    /\ UNCHANGED <<idVars, emitted, uidOthers>>

\* account = u.String()
SetAccount(t) ==
    /\ At(t, "setAccount")
    /\ \E u \in UUIDs : account' = u
    /\ Goto(t, "testSession")
    /\ UNCHANGED <<user, session, emitted, uidOthers>>

\* if session == ""
TestSession(t) ==
    /\ At(t, "testSession")
    /\ Goto(t, IF session = "" THEN "setSession" ELSE "testUser")
    /\ UNCHANGED <<idVars, emitted, uidOthers>>

\* session = u.String()
SetSession(t) ==
    /\ At(t, "setSession")
    /\ \E u \in UUIDs : session' = u
    /\ Goto(t, "testUser")
    /\ UNCHANGED <<user, account, emitted, uidOthers>>

\* if user == ""
TestUser(t) ==
    /\ At(t, "testUser")
    /\ Goto(t, IF user = "" THEN "sum" ELSE "format")
    /\ UNCHANGED <<idVars, emitted, uidOthers>>

\* sum := sha256.Sum256([]byte(account + session))
SumUser(t) ==
    /\ At(t, "sum")
    /\ translators' = [translators EXCEPT ![t].pc = "setUser",
                                          ![t].sum = Sha256Hex(account \o session)]
    /\ UNCHANGED <<idVars, emitted, uidOthers>>

\* user = hex.EncodeToString(sum[:])
SetUser(t) ==
    /\ At(t, "setUser")
    /\ user' = translators[t].sum
    /\ Goto(t, "format")
    /\ UNCHANGED <<account, session, emitted, uidOthers>>

\* userID := fmt.Sprintf(...): the arguments are read left to right.
FormatUser(t) ==
    /\ At(t, "format")
    /\ translators' = [translators EXCEPT ![t].pc = "formatAccount", ![t].id.user = user]
    /\ UNCHANGED <<idVars, emitted, uidOthers>>

FormatAccount(t) ==
    /\ At(t, "formatAccount")
    /\ translators' = [translators EXCEPT ![t].pc = "formatSession", ![t].id.account = account]
    /\ UNCHANGED <<idVars, emitted, uidOthers>>

FormatSession(t) ==
    /\ At(t, "formatSession")
    /\ translators' = [translators EXCEPT ![t].pc = "return", ![t].id.session = session]
    /\ UNCHANGED <<idVars, emitted, uidOthers>>

\* return []byte(out): the output carries metadata.user_id = userID.
ConvertReturn(t) ==
    /\ At(t, "return")
    /\ emitted' = emitted \cup {translators[t].id}
    /\ translators' = [translators EXCEPT ![t] = TranslatorIdle]
    /\ UNCHANGED <<idVars, uidOthers>>

UidNext ==
    \E t \in Translators :
        \/ ConvertEnter(t)
        \/ TestAccount(t)
        \/ SetAccount(t)
        \/ TestSession(t)
        \/ SetSession(t)
        \/ TestUser(t)
        \/ SumUser(t)
        \/ SetUser(t)
        \/ FormatUser(t)
        \/ FormatAccount(t)
        \/ FormatSession(t)
        \/ ConvertReturn(t)

\* C17 as claimed: every translation of one process emits the same
\* metadata.user_id, translations concurrent with the first one included,
\* and the user part of every emitted id is the SHA-256 hex of the account
\* and session that appear in the same id.
C17_OneUserIdPerProcess ==
    /\ \A i, j \in emitted : i = j
    /\ \A i \in emitted : i.user = Sha256Hex(i.account \o i.session)

----------------------------------------------------------------------------
(* Translator: one call of ConvertOpenAIRequestToClaude, run alone         *)
(*                                                                         *)
(* JSON values as gjson reads them.  A key that is not in the input is     *)
(* Missing; a key whose value is null exists.                              *)

Missing == [json |-> "missing"]

Null == [json |-> "null"]

Num(n) == [json |-> "number", n |-> n]

Str(v) == [json |-> "string", s |-> v]

Arr(a) == [json |-> "array", a |-> a]

\* gjson.Result.Exists
Exists(v) == v # Missing

\* gjson.Result.IsArray
IsArray(v) == v.json = "array"

\* The raw JSON text of an array of parts: brackets around the parts' texts.
RECURSIVE RawParts(_)
RawParts(a) ==
    IF a = << >> THEN << >>
    ELSE <<"{">> \o (IF "text" \in DOMAIN Head(a) /\ Head(a).text.json = "string"
                     THEN Head(a).text.s ELSE << >>) \o <<"}">> \o RawParts(Tail(a))

\* gjson.Result.String, for the kinds of value the inputs below use: the
\* text of a string, the raw JSON of an array, "" for null and for a key
\* that is not there.
String(v) ==
    CASE v.json = "string" -> v.s
      [] v.json = "array" -> <<"[">> \o RawParts(v.a) \o <<"]">>
      [] OTHER -> EmptyString

\* gjson.Result.Float: the number, and 0 for null.
Float(v) == IF v.json = "number" THEN v.n ELSE 0

\* Result.Get(key) on an object of the input.
Field(obj, key) == IF key \in DOMAIN obj THEN obj[key] ELSE Missing

none == <<"n", "o", "n", "e">>

auto == <<"a", "u", "t", "o">>

high == <<"h", "i", "g", "h">>

\* thinking.ConvertLevelToBudget: the budget of a level and whether the level
\* is known.  0 turns thinking off, -1 leaves the budget to the model, a
\* positive budget is a number of tokens.
ConvertLevelToBudget(effort) ==
    CASE effort = none -> [budget |-> 0, ok |-> TRUE]
      [] effort = auto -> [budget |-> -1, ok |-> TRUE]
      [] effort = high -> [budget |-> 24576, ok |-> TRUE]
      [] OTHER -> [budget |-> 0, ok |-> FALSE]

\* The thinking object the reasoning_effort block leaves in out.
ThinkingConfig(root) ==
    LET v == Field(root, "reasoning_effort")
        effort == ToLower(TrimSpace(String(v)))
        b == ConvertLevelToBudget(effort)
    IN  IF ~Exists(v) \/ effort = EmptyString \/ ~b.ok THEN Missing
        ELSE IF b.budget = 0 THEN [type |-> "disabled", budget_tokens |-> Missing]
        ELSE IF b.budget = -1 THEN [type |-> "enabled", budget_tokens |-> Missing]
        ELSE IF b.budget > 0 THEN [type |-> "enabled", budget_tokens |-> Num(b.budget)]
        ELSE Missing

\* thinkingEnabled := gjson.Get(out, "thinking.type").String() == "enabled"
ThinkingEnabled(thinking) == thinking # Missing /\ thinking.type = "enabled"

\* The temperature / top_p block: what out holds under the two keys.
Sampling(root, thinkingEnabled) ==
    LET temp == Field(root, "temperature")
        topP == Field(root, "top_p")
    IN  IF thinkingEnabled THEN [temperature |-> Num(1), top_p |-> Missing]
        ELSE IF Exists(temp) THEN [temperature |-> Num(Float(temp)), top_p |-> Missing]
        ELSE IF Exists(topP) THEN [temperature |-> Missing, top_p |-> Num(Float(topP))]
        ELSE [temperature |-> Missing, top_p |-> Missing]

\* Role and part-type names of the input.
roleSystem == <<"s", "y", "s", "t", "e", "m">>

roleUser == <<"u", "s", "e", "r">>

roleAssistant == <<"a", "s", "s", "i", "s", "t", "a", "n", "t">>

roleTool == <<"t", "o", "o", "l">>

roleDeveloper == <<"d", "e", "v", "e", "l", "o", "p", "e", "r">>

typeText == <<"t", "e", "x", "t">>

typeImageURL == <<"i", "m", "a", "g", "e", "_", "u", "r", "l">>

typeToolUse == <<"t", "o", "o", "l", "_", "u", "s", "e">>

typeFunction == <<"f", "u", "n", "c", "t", "i", "o", "n">>

typeCustom == <<"c", "u", "s", "t", "o", "m">>

\* cache.GenerateThinkingID: a digest of the text.
GenerateThinkingID(thinkingText) == <<"#">> \o thinkingText

\* deriveSessionID: the digest of the first user message whose content reads
\* as a non-empty string, content.0.text standing in when content reads "".
RECURSIVE deriveSessionIDFrom(_)
deriveSessionIDFrom(msgs) ==
    IF msgs = << >> THEN EmptyString
    ELSE LET msg == Head(msgs)
             c == Field(msg, "content")
             first == IF IsArray(c) /\ c.a # << >> THEN Field(c.a[1], "text") ELSE Missing
             content == IF String(c) = EmptyString THEN String(first) ELSE String(c)
         IN  IF String(Field(msg, "role")) = roleUser /\ content # EmptyString
             THEN GenerateThinkingID(content)
             ELSE deriveSessionIDFrom(Tail(msgs))

deriveSessionID(root) ==
    LET messages == Field(root, "messages") IN
    IF ~IsArray(messages) THEN EmptyString ELSE deriveSessionIDFrom(messages.a)

\* Whether pat stands in s at position i.
HasAt(s, pat, i) ==
    /\ i >= 1
    /\ i + Len(pat) - 1 <= Len(s)
    /\ SubSeq(s, i, i + Len(pat) - 1) = pat

\* The first position from i on where pat stands in s, 0 when there is none.
RECURSIVE IndexFrom(_, _, _)
IndexFrom(s, pat, i) ==
    IF i + Len(pat) - 1 > Len(s) THEN 0
    ELSE IF s[i] = pat[1] /\ SubSeq(s, i, i + Len(pat) - 1) = pat THEN i
    ELSE IndexFrom(s, pat, i + 1)

\* The backtick, which no TLA+ string can hold, is written as the tilde.
Backtick == "~"

fence == <<Backtick, Backtick, Backtick>>

HexDigits == {"a", "b", "c", "d", "e", "f", "0", "1", "2", "3", "4", "5", "6", "7", "8", "9"}

\* The four patterns: what opens a match, what closes it, and whether the
\* group between them is [a-f0-9]+ or the lazy [\s\S]*?.
thinkTagRegex ==
    [open |-> <<"<", "t", "h", "i", "n", "k", ">">>,
     close |-> <<"<", "/", "t", "h", "i", "n", "k", ">">>, hex |-> FALSE]

thinkIdRegex ==
    [open |-> fence \o <<"p", "l", "a", "i", "n", "t", "e", "x", "t", ":", "t", "h", "i", "n", "k", "I", "d", ":">>,
     close |-> fence, hex |-> TRUE]

legacyThinkingRegex ==
    [open |-> fence \o <<"p", "l", "a", "i", "n", "t", "e", "x", "t", ":", "T", "h", "i", "n", "k", "i", "n", "g", "\n">>,
     close |-> fence, hex |-> FALSE]

legacySignatureRegex ==
    [open |-> fence \o <<"p", "l", "a", "i", "n", "t", "e", "x", "t", ":", "S", "i", "g", "n", "a", "t", "u", "r", "e", ":">>,
     close |-> fence, hex |-> FALSE]

NoMatch == [from |-> 0, to |-> 0, group |-> << >>]

\* How many hex digits stand in s from position i on.
RECURSIVE HexRun(_, _)
HexRun(s, i) ==
    IF i <= Len(s) /\ s[i] \in HexDigits THEN 1 + HexRun(s, i + 1) ELSE 0

\* The leftmost match of re in s that starts at i or later.  A lazy group
\* ends at the first close after the leftmost open; a hex group is the whole
\* run of hex digits, which the close must follow.
RECURSIVE FindFrom(_, _, _)
FindFrom(re, s, i) ==
    LET a == IndexFrom(s, re.open, i)
        g == a + Len(re.open)
    IN  IF a = 0 THEN NoMatch
        ELSE IF re.hex
        THEN LET n == HexRun(s, g) IN
             IF n >= 1 /\ HasAt(s, re.close, g + n)
             THEN [from |-> a, to |-> g + n + Len(re.close) - 1, group |-> SubSeq(s, g, g + n - 1)]
             ELSE FindFrom(re, s, a + 1)
        ELSE LET b == IndexFrom(s, re.close, g) IN
             IF b = 0 THEN NoMatch
             ELSE [from |-> a, to |-> b + Len(re.close) - 1, group |-> SubSeq(s, g, b - 1)]

\* re.FindStringSubmatch(s): the match and its group, NoMatch for nil.
FindStringSubmatch(re, s) == FindFrom(re, s, 1)

Matches(re, s) == FindStringSubmatch(re, s).from # 0

\* re.ReplaceAllString(s, ""), from position i on.
RECURSIVE RemoveFrom(_, _, _)
RemoveFrom(re, s, i) ==
    LET m == FindFrom(re, s, i) IN
    IF m.from = 0 THEN SubSeq(s, i, Len(s))
    ELSE SubSeq(s, i, m.from - 1) \o RemoveFrom(re, s, m.to + 1)

ReplaceAllString(re, s) == RemoveFrom(re, s, 1)

escapedFence == <<"\\", Backtick, "\\", Backtick, "\\", Backtick>>

\* strings.ReplaceAll: every escaped fence becomes a fence.
RECURSIVE Unescape(_)
Unescape(s) ==
    LET a == IndexFrom(s, escapedFence, 1) IN
    IF a = 0 THEN s
    ELSE SubSeq(s, 1, a - 1) \o fence \o Unescape(SubSeq(s, a + Len(escapedFence), Len(s)))

\* What GetCachedThinking returns for the cache and the time of the state: the
\* entry, or nil for an empty id, a session without bucket, a missing entry
\* and an expired one.
CachedThinking(sessionID, thinkingID) ==
    IF sessionID = EmptyString \/ thinkingID = EmptyString THEN [found |-> FALSE]
    ELSE IF sessionID \notin DOMAIN thinkingCache THEN [found |-> FALSE]
    ELSE IF ~thinkingCache[sessionID].present THEN [found |-> FALSE]
    ELSE LET entries == thinkingCache[sessionID].entries IN
         IF thinkingID \notin DOMAIN entries THEN [found |-> FALSE]
         ELSE IF clock - entries[thinkingID].Timestamp > ThinkingCacheTTL THEN [found |-> FALSE]
         ELSE [found |-> TRUE, ThinkingText |-> entries[thinkingID].ThinkingText,
               Signature |-> entries[thinkingID].Signature]

\* {"type":"thinking","thinking":...,"signature":...}, then the text that is
\* left when there is any.
ThinkingParts(thinkingText, signatureText, remainingText) ==
    << [type |-> "thinking", thinking |-> thinkingText, signature |-> signatureText] >>
    \o (IF remainingText # EmptyString
        THEN << [type |-> "text", text |-> remainingText] >>
        ELSE << >>)

\* The text without any think tag, thinkId marker and legacy block as one
\* text part, no part when nothing is left of it.
CleanParts(text) ==
    LET cleanText ==
            TrimSpace(ReplaceAllString(legacySignatureRegex,
                         ReplaceAllString(legacyThinkingRegex,
                            ReplaceAllString(thinkIdRegex,
                               ReplaceAllString(thinkTagRegex, text)))))
    IN  IF cleanText = EmptyString THEN << >>
        ELSE << [type |-> "text", text |-> cleanText] >>

\* The legacy branch taken whenever one of the two blocks is there.
ExtractLegacyEither(text) ==
    LET thinkingMatch == FindStringSubmatch(legacyThinkingRegex, text)
        signatureMatch == FindStringSubmatch(legacySignatureRegex, text)
    IN  IF thinkingMatch.from # 0 \/ signatureMatch.from # 0
        THEN ThinkingParts(Unescape(thinkingMatch.group), signatureMatch.group,
                 TrimSpace(ReplaceAllString(legacySignatureRegex,
                               ReplaceAllString(legacyThinkingRegex, text))))
        ELSE CleanParts(text)

\* extractThinkingFromContent from the legacy format on: the thinking part of
\* a Thinking block and a Signature block, else the text without any marker.
ExtractLegacy(text) ==
    LET thinkingMatch == FindStringSubmatch(legacyThinkingRegex, text)
        signatureMatch == FindStringSubmatch(legacySignatureRegex, text)
    IN  IF thinkingMatch.from # 0 /\ signatureMatch.from # 0
        THEN ThinkingParts(Unescape(thinkingMatch.group), signatureMatch.group,
                 TrimSpace(ReplaceAllString(legacySignatureRegex,
                               ReplaceAllString(legacyThinkingRegex, text))))
        ELSE CleanParts(text)

\* extractThinkingFromContent: the parts of one text.  The thinkId marker is
\* looked up in the thinking cache of the state; the entry GetCachedThinking
\* deletes on the way is the caller's to delete.
extractThinkingFromContent(sessionID, text) ==
    LET idMatch == FindStringSubmatch(thinkIdRegex, text)
        entry == IF idMatch.from # 0 THEN CachedThinking(sessionID, idMatch.group)
                 ELSE [found |-> FALSE]
    IN  IF entry.found /\ HasValidSignature(TranslateModelName, entry.Signature)
        THEN ThinkingParts(entry.ThinkingText, entry.Signature,
                 TrimSpace(ReplaceAllString(thinkIdRegex,
                               ReplaceAllString(thinkTagRegex, text))))
        ELSE ExtractLegacy(text)

\* {"type":"text","text":""} with its text set.
TextPart(text) == [type |-> "text", text |-> text]

\* The text parts a system message adds to the container.
RECURSIVE SystemArrayParts(_)
SystemArrayParts(parts) ==
    IF parts = << >> THEN << >>
    ELSE (IF String(Field(Head(parts), "type")) = typeText
          THEN << TextPart(String(Field(Head(parts), "text"))) >>
          ELSE << >>) \o SystemArrayParts(Tail(parts))

SystemParts(contentResult) ==
    IF Exists(contentResult) /\ contentResult.json = "string" /\ String(contentResult) # EmptyString
    THEN << TextPart(String(contentResult)) >>
    ELSE IF Exists(contentResult) /\ IsArray(contentResult)
    THEN SystemArrayParts(contentResult.a)
    ELSE << >>

\* The parts a user or assistant message's array content adds to msg.  A
\* part of type image_url whose URL is no data: URL adds nothing; parts of
\* type tool_use and tool_result go to contentParts, which msg never reads.
RECURSIVE ContentArrayParts(_, _)
ContentArrayParts(sessionID, parts) ==
    IF parts = << >> THEN << >>
    ELSE (IF String(Field(Head(parts), "type")) = typeText
          THEN extractThinkingFromContent(sessionID, String(Field(Head(parts), "text")))
          ELSE << >>) \o ContentArrayParts(sessionID, Tail(parts))

ContentParts(sessionID, contentResult) ==
    IF Exists(contentResult) /\ contentResult.json = "string" /\ String(contentResult) # EmptyString
    THEN extractThinkingFromContent(sessionID, String(contentResult))
    ELSE IF Exists(contentResult) /\ IsArray(contentResult)
    THEN ContentArrayParts(sessionID, contentResult.a)
    ELSE << >>

\* sjson.SetRaw(out, "messages.-1", msg)
AppendMessage(messages, msg) == Append(messages, msg)

\* Appending the parts to the message appended last, whatever the index.
AppendContentToLast(messages, index, parts) ==
    [messages EXCEPT ![Len(messages)].content = @ \o parts]

\* sjson.SetRaw(out, "messages.<index>.content.-1", part), once per part;
\* index counts from 0.
AppendContent(messages, index, parts) ==
    [messages EXCEPT ![index + 1].content = @ \o parts]

\* The state of the pass: the messages of out, the two counters, and the
\* draws crypto/rand has yet to hand to genToolCallID.
MessagePassStart ==
    [messages |-> << >>, messageIndex |-> 0, systemMessageIndex |-> -1, rand |-> << >>]

\* The 62 letters genToolCallID draws from.
letters ==
    <<"a", "b", "c", "d", "e", "f", "g", "h", "i", "j", "k", "l", "m",
      "n", "o", "p", "q", "r", "s", "t", "u", "v", "w", "x", "y", "z",
      "A", "B", "C", "D", "E", "F", "G", "H", "I", "J", "K", "L", "M",
      "N", "O", "P", "Q", "R", "S", "T", "U", "V", "W", "X", "Y", "Z",
      "0", "1", "2", "3", "4", "5", "6", "7", "8", "9">>

\* The length of the random part of a generated id.
ToolCallIDLen == 24

\* genToolCallID: "toolu_" and one letter per draw; draw holds the numbers
\* rand.Int returned, each in 0..61.
genToolCallID(draw) ==
    <<"t", "o", "o", "l", "u", "_">> \o [i \in 1..ToolCallIDLen |-> letters[draw[i] + 1]]

\* The first position from i on that holds no blank, Len(s) + 1 when none.
RECURSIVE SkipSpace(_, _)
SkipSpace(s, i) ==
    IF i <= Len(s) /\ s[i] = " " THEN SkipSpace(s, i + 1) ELSE i

RECURSIVE DigitsEnd(_, _)
DigitsEnd(s, i) ==
    IF i <= Len(s) /\ DigitValue(s[i]) >= 0 THEN DigitsEnd(s, i + 1) ELSE i

\* The position after the closing quote of the string that opens at i, 0
\* when it does not close.
RECURSIVE StringEnd(_, _)
StringEnd(s, i) ==
    IF i > Len(s) THEN 0
    ELSE IF s[i] = "\"" THEN i + 1
    ELSE StringEnd(s, i + 1)

\* The JSON texts of the model: objects, arrays, strings without escapes and
\* unsigned integers, with blanks between tokens.  ValueEnd is the position
\* after the value that starts at i, 0 when no value starts there.
RECURSIVE ValueEnd(_, _)
RECURSIVE MembersEnd(_, _)
RECURSIVE ElementsEnd(_, _)
ValueEnd(s, i) ==
    IF i > Len(s) THEN 0
    ELSE IF s[i] = "{" THEN
        LET j == SkipSpace(s, i + 1) IN
        IF j <= Len(s) /\ s[j] = "}" THEN j + 1 ELSE MembersEnd(s, j)
    ELSE IF s[i] = "[" THEN
        LET j == SkipSpace(s, i + 1) IN
        IF j <= Len(s) /\ s[j] = "]" THEN j + 1 ELSE ElementsEnd(s, j)
    ELSE IF s[i] = "\"" THEN StringEnd(s, i + 1)
    ELSE IF DigitValue(s[i]) >= 0 THEN DigitsEnd(s, i)
    ELSE 0

MembersEnd(s, i) ==
    IF i > Len(s) \/ s[i] # "\"" THEN 0
    ELSE LET k == StringEnd(s, i + 1)
             c == IF k = 0 THEN 0 ELSE SkipSpace(s, k)
             v == IF c = 0 \/ c > Len(s) \/ s[c] # ":" THEN 0
                  ELSE ValueEnd(s, SkipSpace(s, c + 1))
             e == IF v = 0 THEN 0 ELSE SkipSpace(s, v)
         IN  IF e = 0 \/ e > Len(s) THEN 0
             ELSE IF s[e] = "}" THEN e + 1
             ELSE IF s[e] = "," THEN MembersEnd(s, SkipSpace(s, e + 1))
             ELSE 0

ElementsEnd(s, i) ==
    LET v == ValueEnd(s, i)
        e == IF v = 0 THEN 0 ELSE SkipSpace(s, v)
    IN  IF e = 0 \/ e > Len(s) THEN 0
        ELSE IF s[e] = "]" THEN e + 1
        ELSE IF s[e] = "," THEN ElementsEnd(s, SkipSpace(s, e + 1))
        ELSE 0

\* gjson.Valid: one value, blanks before and after it, nothing else.
Valid(s) ==
    LET v == ValueEnd(s, SkipSpace(s, 1)) IN
    v # 0 /\ SkipSpace(s, v) = Len(s) + 1

\* gjson.Parse(s).Raw for a text whose first token opens an object or an
\* array: the text from that token on.
ParseRaw(s) == SubSeq(s, SkipSpace(s, 1), Len(s))

\* gjson.Parse(s).IsObject
ParseIsObject(s) ==
    LET i == SkipSpace(s, 1) IN i <= Len(s) /\ s[i] = "{"

EmptyObject == <<"{", "}">>

\* The input of a tool_use part, always the raw arguments.
ToolUseInputUnchecked(function) == String(Field(function, "arguments"))

\* The input of a tool_use part: the arguments when they are the text of a
\* JSON object, {} otherwise.
ToolUseInput(function) ==
    LET args == Field(function, "arguments")
        argsStr == String(args)
    IN  IF Exists(args) /\ argsStr # EmptyString /\ Valid(argsStr) /\ ParseIsObject(argsStr)
        THEN ParseRaw(argsStr)
        ELSE EmptyObject

\* The tool_calls loop: the tool_use parts it adds to msg and the draws left.
RECURSIVE ToolCallParts(_, _)
ToolCallParts(calls, rand) ==
    IF calls = << >> THEN [parts |-> << >>, rand |-> rand]
    ELSE LET toolCall == Head(calls)
             isFunction == String(Field(toolCall, "type")) = typeFunction
             given == String(Field(toolCall, "id"))
             generate == isFunction /\ given = EmptyString
             function == IF Exists(Field(toolCall, "function")) THEN toolCall.function
                         ELSE << >>
             rest == ToolCallParts(Tail(calls), IF generate THEN Tail(rand) ELSE rand)
         IN  IF isFunction
             THEN [parts |-> << [type |-> "tool_use",
                                 id |-> IF generate THEN genToolCallID(Head(rand)) ELSE given,
                                 name |-> String(Field(function, "name")),
                                 input |-> ToolUseInput(function)] >> \o rest.parts,
                   rand |-> rest.rand]
             ELSE rest

\* The tool_calls block of a user or assistant message.
ToolCalls(message, role, rand) ==
    LET toolCalls == Field(message, "tool_calls") IN
    IF Exists(toolCalls) /\ IsArray(toolCalls) /\ role = roleAssistant
    THEN ToolCallParts(toolCalls.a, rand)
    ELSE [parts |-> << >>, rand |-> rand]

\* One round that takes every element for the message of a user.
MessageStepAnyRole(st, sessionID, message) ==
    [st EXCEPT !.messages = AppendMessage(st.messages,
                                [role |-> roleUser,
                                 content |-> ContentParts(sessionID,
                                                          Field(message, "content"))]),
               !.messageIndex = st.messageIndex + 1]

\* One round of messages.ForEach.
MessageStep(st, sessionID, message) ==
    LET role == String(Field(message, "role"))
        contentResult == Field(message, "content")
    IN  IF role = roleSystem THEN
            LET st1 == IF st.systemMessageIndex = -1
                       THEN [messages |-> AppendMessage(st.messages,
                                              [role |-> roleUser, content |-> << >>]),
                             messageIndex |-> st.messageIndex + 1,
                             systemMessageIndex |-> st.messageIndex,
                             rand |-> st.rand]
                       ELSE st
            IN  [st1 EXCEPT !.messages = AppendContent(st1.messages, st1.systemMessageIndex,
                                                       SystemParts(contentResult))]
        ELSE IF role \in {roleUser, roleAssistant} THEN
            LET uses == ToolCalls(message, role, st.rand) IN
            [st EXCEPT !.messages = AppendMessage(st.messages,
                                        [role |-> role,
                                         content |-> ContentParts(sessionID, contentResult)
                                                     \o uses.parts]),
                       !.messageIndex = st.messageIndex + 1,
                       !.rand = uses.rand]
        ELSE IF role = roleTool THEN
            [st EXCEPT !.messages = AppendMessage(st.messages,
                                        [role |-> roleUser,
                                         content |-> << [type |-> "tool_result",
                                                         tool_use_id |->
                                                            String(Field(message, "tool_call_id")),
                                                         content |-> String(contentResult)] >>]),
                       !.messageIndex = st.messageIndex + 1]
        ELSE st

RECURSIVE MessageLoop(_, _, _)
MessageLoop(st, sessionID, msgs) ==
    IF msgs = << >> THEN st
    ELSE MessageLoop(MessageStep(st, sessionID, Head(msgs)), sessionID, Tail(msgs))

\* The message pass: the messages array of out.
MessagePass(root, sessionID, rand) ==
    LET messages == Field(root, "messages") IN
    IF Exists(messages) /\ IsArray(messages)
    THEN MessageLoop([MessagePassStart EXCEPT !.rand = rand], sessionID, messages.a).messages
    ELSE << >>

\* The entries the tools loop appends to anthropicTools.
AnthropicTool(tool) ==
    IF String(Field(tool, "type")) = typeFunction THEN
        LET function == IF Exists(Field(tool, "function")) THEN tool.function ELSE << >>
            parameters == IF Exists(Field(function, "parameters"))
                          THEN Field(function, "parameters")
                          ELSE Field(function, "parametersJsonSchema")
        IN  << [name |-> String(Field(function, "name")),
                description |-> String(Field(function, "description")),
                input_schema |-> parameters] >>
    ELSE IF ~Exists(Field(tool, "type")) THEN
        << [name |-> String(Field(tool, "name")),
            description |-> String(Field(tool, "description")),
            input_schema |-> Field(tool, "input_schema")] >>
    ELSE << >>

RECURSIVE AnthropicTools(_)
AnthropicTools(tools) ==
    IF tools = << >> THEN << >>
    ELSE AnthropicTool(Head(tools)) \o AnthropicTools(Tail(tools))

\* The tools block: what out holds under "tools" after it.  The entries go
\* to anthropicTools, which nothing writes into out, and hasAnthropicTools
\* is false when the loop ends, so the key is deleted from out.
ToolsMapping(root, outTools) ==
    LET tools == Field(root, "tools") IN
    IF Exists(tools) /\ IsArray(tools) /\ Len(tools.a) > 0
    THEN LET hasAnthropicTools == FALSE
             anthropicTools == AnthropicTools(tools.a)
         IN  IF ~hasAnthropicTools THEN Missing ELSE outTools
    ELSE outTools

\* gjson.Result.Int: the number, and 0 for null.
IntValue(v) == IF v.json = "number" THEN v.n ELSE 0

\* ConvertOpenAIRequestToClaude, for inputs with no stop, system and
\* tool_choice: the keys of the JSON it returns.  rand holds what crypto/rand
\* returns to the calls of genToolCallID, in order.
ConvertOpenAIRequestToClaude(modelName, root, stream, userID, rand) ==
    LET sessionID == deriveSessionID(root)
        thinking == ThinkingConfig(root)
        sampling == Sampling(root, ThinkingEnabled(thinking))
    IN  [done |-> TRUE,
         model |-> modelName,
         max_tokens |-> IF Exists(Field(root, "max_tokens"))
                        THEN IntValue(Field(root, "max_tokens")) ELSE 32000,
         metadata |-> [user_id |-> userID],
         thinking |-> thinking,
         temperature |-> sampling.temperature,
         top_p |-> sampling.top_p,
         stream |-> stream,
         messages |-> MessagePass(root, sessionID, rand),
         tools |-> ToolsMapping(root, Missing)]

NotConverted == [done |-> FALSE]

MaxToolCalls == 2

\* What rand.Int returns during the 24 rounds of one genToolCallID call:
\* always 0, or always 61.
Draws == { [i \in 1..ToolCallIDLen |-> 0], [i \in 1..ToolCallIDLen |-> 61] }

\* The draws of one call of the translator: one per tool call it may hold.
RandomDraws == [1..MaxToolCalls -> Draws]

EmptyRequest ==
    [reasoning_effort |-> Missing, temperature |-> Missing, top_p |-> Missing,
     max_tokens |-> Missing, messages |-> Missing, tools |-> Missing]

\* No call of the translator since the request changed.
NotCalled == [called |-> FALSE]

ConvInit ==
    /\ request = EmptyRequest
    /\ call = NotCalled
    /\ out = NotConverted

\* One call of the translator with no other call running: the first use
\* fills account, session and user.
Convert ==
    /\ ~out.done
    /\ \E a, s \in UUIDs, stream \in BOOLEAN, rand \in RandomDraws :
          /\ account' = IF account = "" THEN a ELSE account
          /\ session' = IF session = "" THEN s ELSE session
          /\ user' = IF user = "" THEN Sha256Hex(account' \o session') ELSE user
          /\ call' = [called |-> TRUE, modelName |-> TranslateModelName, stream |-> stream,
                       sessionID |-> deriveSessionID(request)]
          /\ out' = ConvertOpenAIRequestToClaude(TranslateModelName, request, stream,
                                                 UserID(user', account', session'), rand)
    /\ UNCHANGED <<request, convOthers>>

----------------------------------------------------------------------------
(* Translator: reasoning_effort, temperature and top_p *)

EffortInputs ==
    {Missing, Null, Str(EmptyString), Str(none), Str(auto), Str(high),
     Str(<<" ", "A", "u", "t", "o", " ">>), Str(<<"x">>)}

TemperatureInputs == {Missing, Null, Num(0), Num(2)}

TopPInputs == {Missing, Null, Num(1)}

\* The next request differs in its three sampling keys.
SetSampling(effort, temp, topP) ==
    /\ request' = [request EXCEPT !.reasoning_effort = effort,
                                  !.temperature = temp,
                                  !.top_p = topP]
    /\ request' # request
    /\ call' = NotCalled
    /\ out' = NotConverted
    /\ UNCHANGED <<idVars, convOthers>>

SamplingNext ==
    \/ \E effort \in EffortInputs, temp \in TemperatureInputs, topP \in TopPInputs :
          SetSampling(effort, temp, topP)
    \/ Convert

\* Whether the reasoning_effort block of the last call turned thinking on.
EnabledByEffort == out.thinking # Missing /\ out.thinking.type = "enabled"

\* C19 as claimed: in every output temperature and top_p are never both
\* present; when reasoning_effort enabled thinking, temperature is 1 and the
\* input's temperature and top_p are ignored; otherwise the input's
\* temperature is copied when the input has it, and top_p is copied only when
\* the input has no temperature.
C19_TemperatureOrTopP ==
    out.done =>
       /\ ~(Exists(out.temperature) /\ Exists(out.top_p))
       /\ EnabledByEffort => (out.temperature = Num(1) /\ ~Exists(out.top_p))
       /\ ~EnabledByEffort =>
             /\ out.temperature = request.temperature
             /\ out.top_p = IF Exists(request.temperature) THEN Missing ELSE request.top_p

----------------------------------------------------------------------------
(* Translator: the message pass *)

MaxMessages == 3

MessageInputs ==
    { [role |-> Str(roleSystem), content |-> Str(<<"S">>)],
      [role |-> Str(roleSystem),
       content |-> Arr(<< [type |-> Str(typeText), text |-> Str(<<"T">>)],
                          [type |-> Str(typeImageURL)] >>)],
      [role |-> Str(roleSystem)],
      [role |-> Str(roleUser), content |-> Str(<<" ", "h", " ">>)],
      [role |-> Str(roleAssistant),
       content |-> Arr(<< [type |-> Str(typeText), text |-> Str(<<"a">>)],
                          [type |-> Str(typeToolUse), id |-> Str(<<"c">>)] >>)],
      [role |-> Str(roleTool), tool_call_id |-> Str(<<"c">>), content |-> Str(<<"r">>)],
      [role |-> Str(roleDeveloper), content |-> Str(<<"d">>)] }

\* The next request has one more message.
AddMessage(message) ==
    /\ IF Exists(request.messages)
       THEN /\ Len(request.messages.a) < MaxMessages
            /\ request' = [request EXCEPT !.messages = Arr(Append(@.a, message))]
       ELSE request' = [request EXCEPT !.messages = Arr(<<message>>)]
    /\ call' = NotCalled
    /\ out' = NotConverted
    /\ UNCHANGED <<idVars, convOthers>>

MessagesNext ==
    \/ \E message \in MessageInputs : AddMessage(message)
    \/ Convert

RoleOf(message) == String(Field(message, "role"))

IsSystem(message) == RoleOf(message) = roleSystem

HasOutput(message) == RoleOf(message) \in {roleUser, roleAssistant, roleTool}

\* How many of the first n input messages are system messages, or have a
\* role that is output.
Among(ins, n, kind) ==
    Cardinality({ j \in 1..n : IF kind = "system" THEN IsSystem(ins[j]) ELSE HasOutput(ins[j]) })

\* Where the first system message of the input is, 0 when there is none.
FirstSystem(ins) ==
    IF \E i \in 1..Len(ins) : IsSystem(ins[i])
    THEN CHOOSE i \in 1..Len(ins) : IsSystem(ins[i]) /\ Among(ins, i - 1, "system") = 0
    ELSE 0

\* The output position of input message i, which has a role that is output.
OutputPosition(ins, i) ==
    Among(ins, i, "output") + (IF FirstSystem(ins) \in 1..i THEN 1 ELSE 0)

\* The output position of the synthetic message.
ContainerPosition(ins) == Among(ins, FirstSystem(ins), "output") + 1

\* The text parts of all system messages of the input, in input order.
RECURSIVE SystemTexts(_)
SystemTexts(ins) ==
    IF ins = << >> THEN << >>
    ELSE (IF IsSystem(Head(ins)) THEN SystemParts(Field(Head(ins), "content")) ELSE << >>)
         \o SystemTexts(Tail(ins))

\* C18: the output messages are one message per input user, assistant or tool
\* message, in input order, plus one synthetic user message standing where
\* the first system message stood when the input has a system message; the
\* synthetic message holds the text of every system message, later ones
\* included, in input order; messages of any other role leave no output.
C18_MessagePassShape ==
    (out.done /\ Exists(request.messages)) =>
       LET ins == request.messages.a
           outs == out.messages
           anySystem == FirstSystem(ins) # 0
       IN  /\ Len(outs) = Among(ins, Len(ins), "output") + (IF anySystem THEN 1 ELSE 0)
           /\ \A i \in 1..Len(ins) : HasOutput(ins[i]) =>
                 LET o == outs[OutputPosition(ins, i)] IN
                 IF RoleOf(ins[i]) = roleTool
                 THEN /\ o.role = roleUser
                      /\ Len(o.content) = 1
                      /\ o.content[1].type = "tool_result"
                      /\ o.content[1].tool_use_id = String(Field(ins[i], "tool_call_id"))
                      /\ o.content[1].content = String(Field(ins[i], "content"))
                 ELSE /\ o.role = RoleOf(ins[i])
                      /\ o.content = ContentParts(deriveSessionID(request),
                                                  Field(ins[i], "content"))
           /\ anySystem =>
                 /\ outs[ContainerPosition(ins)].role = roleUser
                 /\ outs[ContainerPosition(ins)].content = SystemTexts(ins)

\* C18's case: a system message, then a user message, then a second system
\* message with text; the output is the synthetic message holding both texts
\* and the user message.
C18_LateSystemTextHoisted ==
    /\ out.done
    /\ Exists(request.messages)
    /\ Len(request.messages.a) = 3
    /\ IsSystem(request.messages.a[1])
    /\ RoleOf(request.messages.a[2]) = roleUser
    /\ IsSystem(request.messages.a[3])
    /\ Len(out.messages) = 2
    /\ Len(out.messages[1].content) = 2
    /\ out.messages[2].role = roleUser

----------------------------------------------------------------------------
(* Translator: the tools mapping *)

MaxTools == 2

\* A JSON schema object, told from others by its raw text.
Schema(raw) == [json |-> "object", raw |-> raw]

ToolInputs ==
    { [type |-> Str(typeFunction),
       function |-> [name |-> Str(<<"f">>), description |-> Str(<<"d">>),
                     parameters |-> Schema("P")]],
      [type |-> Str(typeFunction),
       function |-> [name |-> Str(<<"g">>), description |-> Str(<<"e">>),
                     parametersJsonSchema |-> Schema("J")]],
      [name |-> Str(<<"b">>), description |-> Str(<<"c">>), input_schema |-> Schema("I")],
      [type |-> Str(typeCustom), name |-> Str(<<"k">>)] }

\* The next request has one more tool.
AddTool(tool) ==
    /\ IF Exists(request.tools)
       THEN /\ Len(request.tools.a) < MaxTools
            /\ request' = [request EXCEPT !.tools = Arr(Append(@.a, tool))]
       ELSE request' = [request EXCEPT !.tools = Arr(<<tool>>)]
    /\ call' = NotCalled
    /\ out' = NotConverted
    /\ UNCHANGED <<idVars, convOthers>>

ToolsNext ==
    \/ \E tool \in ToolInputs : AddTool(tool)
    \/ Convert

\* C20 as claimed: for every input tools array the output holds a tools
\* array with one entry {name, description, input_schema} per input tool of
\* type "function" (the schema from function.parameters, else from
\* function.parametersJsonSchema) and one per input tool with no type (its
\* fields from the top level), in input order, tools of other types skipped.
\* The entries are the ones the loop builds; the claim is that out has them.
C20_ToolsInOutput ==
    (out.done /\ Exists(request.tools)) =>
       LET entries == AnthropicTools(request.tools.a) IN
       IF entries = << >>
       THEN ~Exists(out.tools) \/ out.tools = Arr(<< >>)
       ELSE out.tools = Arr(entries)

---------------------------------------------------------------------------------------------------------------------------------------------------
(* Translator: tool calls of a message *)

\* The texts the arguments of a tool call take.
ArgsObject == <<"{", "\"", "a", "\"", ":", "1", "}">>

ArgsBlankObject == <<" ", "{", "}">>

ArgsArray == <<"[", "1", "]">>

ArgsOpen == <<"{">>

\* The tool calls of the input: with an id, without one and with an empty
\* one, of type function and not, with arguments of every kind.
ToolCallInputs ==
    { [type |-> Str(typeFunction), id |-> Str(<<"c", "1">>),
       function |-> [name |-> Str(<<"f">>), arguments |-> Str(ArgsObject)]],
      [type |-> Str(typeFunction),
       function |-> [name |-> Str(<<"g">>), arguments |-> Str(ArgsOpen)]],
      [type |-> Str(typeFunction), id |-> Str(EmptyString),
       function |-> [name |-> Str(<<"f">>), arguments |-> Str(ArgsArray)]],
      [type |-> Str(typeFunction), id |-> Str(<<"c", "2">>),
       function |-> [name |-> Str(<<"g">>)]],
      [type |-> Str(typeFunction), id |-> Str(<<"c", "1">>),
       function |-> [name |-> Str(<<"f">>), arguments |-> Str(ArgsBlankObject)]],
      [type |-> Str(typeCustom), id |-> Str(<<"c", "3">>),
       function |-> [name |-> Str(<<"f">>), arguments |-> Str(ArgsObject)]],
      [type |-> Str(typeFunction),
       function |-> [name |-> Str(<<"f">>), arguments |-> Null]],
      [type |-> Str(typeFunction), id |-> Str(<<"c", "1">>),
       function |-> [name |-> Str(<<"f">>), arguments |-> Str(EmptyString)]] }

\* The next request holds one message, of a user or of the assistant, with
\* or without content and with no tool call yet.
SetCallMessage(role, content) ==
    /\ request' = [request EXCEPT !.messages =
                      Arr(<< [role |-> Str(role), content |-> content,
                              tool_calls |-> Arr(<< >>)] >>)]
    /\ call' = NotCalled
    /\ out' = NotConverted
    /\ UNCHANGED <<idVars, convOthers>>

\* The message of the next request has one more tool call.
AddToolCall(toolCall) ==
    /\ Exists(request.messages)
    /\ Len(request.messages.a[1].tool_calls.a) < MaxToolCalls
    /\ request' = [request EXCEPT !.messages =
                      Arr(<< [@.a[1] EXCEPT !.tool_calls = Arr(Append(@.a, toolCall))] >>)]
    /\ call' = NotCalled
    /\ out' = NotConverted
    /\ UNCHANGED <<idVars, convOthers>>

ToolCallsNext ==
    \/ \E role \in {roleUser, roleAssistant}, content \in {Missing, Str(<<"h">>)} :
          SetCallMessage(role, content)
    \/ \E toolCall \in ToolCallInputs : AddToolCall(toolCall)
    \/ Convert

IsFunctionCall(toolCall) == String(Field(toolCall, "type")) = typeFunction

\* The calls of type function among calls, in order.
FunctionCalls(calls) == SelectSeq(calls, IsFunctionCall)

\* "toolu_" followed by 24 letters or digits.
IsGeneratedID(id) ==
    /\ Len(id) = 6 + ToolCallIDLen
    /\ SubSeq(id, 1, 6) = <<"t", "o", "o", "l", "u", "_">>
    /\ \A i \in 7..Len(id) : \E k \in 1..Len(letters) : id[i] = letters[k]

\* What the arguments of a tool call parse to when they are the text of a
\* JSON object: the object's text.
ParsedObject(arguments) ==
    CASE arguments = Str(ArgsObject) -> ArgsObject
      [] arguments = Str(ArgsBlankObject) -> EmptyObject
      [] OTHER -> << >>

\* C21: every tool_calls entry of type function of an assistant message
\* becomes one tool_use part, appended after the parts made from the content,
\* in order; its id is the call's id when that is not empty and a generated
\* toolu_ id otherwise, its input the parsed arguments when they are a JSON
\* object and {} otherwise; the tool_calls of a user message leave no part.
C21_ToolCallsBecomeToolUse ==
    (out.done /\ Exists(request.messages)) =>
       LET message == request.messages.a[1]
           fromContent == ContentParts(deriveSessionID(request), Field(message, "content"))
           content == out.messages[1].content
           uses == SubSeq(content, Len(fromContent) + 1, Len(content))
           calls == IF RoleOf(message) = roleAssistant
                    THEN FunctionCalls(message.tool_calls.a) ELSE << >>
       IN  /\ Len(out.messages) = 1
           /\ SubSeq(content, 1, Len(fromContent)) = fromContent
           /\ Len(uses) = Len(calls)
           /\ \A k \in 1..Len(calls) :
                 LET id == String(Field(calls[k], "id"))
                     arguments == Field(calls[k].function, "arguments")
                 IN  /\ uses[k].type = "tool_use"
                     /\ IF id # EmptyString THEN uses[k].id = id
                        ELSE IsGeneratedID(uses[k].id)
                     /\ uses[k].name = String(calls[k].function.name)
                     /\ uses[k].input = IF ParsedObject(arguments) # << >>
                                        THEN ParsedObject(arguments) ELSE EmptyObject

\* C21's case: an assistant message with content and two calls, the first
\* with an id and an object as arguments, the second with no id and
\* arguments that are no JSON; the output holds the text part and both
\* tool_use parts.
C21_TwoCallsConverted ==
    /\ out.done
    /\ Exists(request.messages)
    /\ RoleOf(request.messages.a[1]) = roleAssistant
    /\ Exists(request.messages.a[1].content)
    /\ Len(request.messages.a[1].tool_calls.a) = 2
    /\ request.messages.a[1].tool_calls.a[1].function.arguments = Str(ArgsObject)
    /\ request.messages.a[1].tool_calls.a[2].function.arguments = Str(ArgsOpen)
    /\ Len(out.messages[1].content) = 3
    /\ out.messages[1].content[2].input = ArgsObject
    /\ IsGeneratedID(out.messages[1].content[3].id)

----------------------------------------------------------------------------
(* Translator: inputs that are no Chat Completions request *)

\* What root.Get("max_tokens") finds: nothing, a number, null, a string.
MaxTokensInputs == {Missing, Num(5), Null, Str(<<"x">>)}

\* What root.Get("messages") finds: nothing, a value that is no array, an
\* empty array, an array of values that are no messages.
MalformedMessages ==
    {Missing, Null, Num(1), Str(<<"m">>), Arr(<< >>),
     Arr(<<Num(1), Str(<<"x">>)>>),
     Arr(<<[content |-> Str(<<"h">>)], [role |-> Num(1), content |-> Str(<<"h">>)]>>)}

\* The next input is a buffer in which gjson finds these values; a buffer
\* that is no JSON at all is one in which it finds nothing.
SetMalformed(maxTokens, messages) ==
    /\ request' = [request EXCEPT !.max_tokens = maxTokens, !.messages = messages]
    /\ call' = NotCalled
    /\ out' = NotConverted
    /\ UNCHANGED <<idVars, convOthers>>

MalformedNext ==
    \/ \E maxTokens \in MaxTokensInputs, messages \in MalformedMessages :
          SetMalformed(maxTokens, messages)
    \/ Convert

\* C22: whatever the input holds, the translator returns an envelope with
\* the given model, max_tokens 32000 unless the input has max_tokens, stream
\* equal to the flag, metadata.user_id set, and no messages when the input
\* has none that can be read.
C22_EnvelopeForAnyInput ==
    call.called =>
       /\ out.done
       /\ out.model = call.modelName
       /\ ~Exists(request.max_tokens) => out.max_tokens = 32000
       /\ out.stream = call.stream
       /\ out.metadata.user_id = UserID(user, account, session)
       /\ user # "" /\ account # "" /\ session # ""
       /\ request.messages \in MalformedMessages => out.messages = << >>

\* C22's case: the translator was called on an input whose messages are a
\* string and which has no max_tokens.
C22_MessagesNoArray ==
    /\ call.called
    /\ request.messages = Str(<<"m">>)
    /\ ~Exists(request.max_tokens)
    /\ out.messages = << >>
    /\ out.max_tokens = 32000

----------------------------------------------------------------------------
(* Management endpoint, simple shape: GET /v0/management/usage/limits *)

\* A float64 is the integer of its hundred-thousandths: 0.12346 is 12346.
Fixed == 100000

\* Go's conversion of a float64 to int, which drops the fraction: a in
\* units of 1/b.
Truncate(a, b) == IF a >= 0 THEN a \div b ELSE -((-a) \div b)

\* Dropping the digits after the second decimal.
round2Down(f) == Truncate(f * 100, Fixed) * (Fixed \div 100)

\* round2: float64(int(f*100+0.5)) / 100
round2(f) == Truncate(f * 100 + Fixed \div 2, Fixed) * (Fixed \div 100)

\* time.Time.Format(time.RFC3339): the text of the instant.
FormatRFC3339(t) == <<"RFC3339", t>>

unknownStatus == <<"u", "n", "k", "n", "o", "w", "n">>

rejected == <<"r", "e", "j", "e", "c", "t", "e", "d">>

\* A record with the fields the endpoint reads: the utilization of either
\* window, a fraction of the limit that is not negative, and the instants
\* the windows reset at, 0 for the zero time.
UsageRecord(status5h, utilization5h, reset5h, status7d, utilization7d, reset7d) ==
    [RateLimitRecord(unified, 0, status5h, 0) EXCEPT !.Status7d = status7d]
    @@ [Utilization5h |-> utilization5h, Reset5h |-> reset5h,
        Utilization7d |-> utilization7d, Reset7d |-> reset7d]

\* The records the store receives: utilizations with five decimals, at,
\* below and above the limit, one of them half way between two results,
\* with and without reset instants; and a record
\* of the standard dialect, which has none of the six fields.
UsageInputs ==
    { UsageRecord(allowed, 12346, StartClock + 60, allowed, 0, 0),
      UsageRecord(rejected, Fixed, StartClock + 5, allowed, 99994, StartClock + 600),
      UsageRecord(allowed, 54321, 0, rejected, 105002, StartClock + 5),
      UsageRecord(allowed, 0, 0, allowed, 4, 0),
      UsageRecord(allowed, 99995, 0, allowed, 996, StartClock + 5),
      UsageRecord(rejected, 100000, 0, rejected, 100000, 0),
      RateLimitRecord(standard, 0, EmptyString, 100)
         @@ [Utilization5h |-> 0, Reset5h |-> 0, Utilization7d |-> 0, Reset7d |-> 0] }

NotAsked == [asked |-> FALSE]

MgmtInit == limits = NotAsked

UsageRecorded ==
    \E r \in UsageInputs :
        /\ Len(records) < MaxLog
        /\ Record(r)
        /\ limits' = NotAsked
        /\ UNCHANGED <<file, tmp, savers, loadRet, mgmtOthers>>

\* The handler: the fixed answer of an empty store, or the six fields of the
\* record Latest returns.
GetUsageLimits ==
    /\ limits' =
          IF ~Latest.found
          THEN [asked |-> TRUE,
                usage5h |-> 0, status5h |-> unknownStatus, reset5h |-> EmptyString,
                usage7d |-> 0, status7d |-> unknownStatus, reset7d |-> EmptyString]
          ELSE LET latest == Latest.r IN
               [asked |-> TRUE,
                usage5h |-> round2(latest.Utilization5h * 100),
                status5h |-> latest.Status5h,
                reset5h |-> IF latest.Reset5h # 0 THEN FormatRFC3339(latest.Reset5h)
                            ELSE EmptyString,
                usage7d |-> round2(latest.Utilization7d * 100),
                status7d |-> latest.Status7d,
                reset7d |-> IF latest.Reset7d # 0 THEN FormatRFC3339(latest.Reset7d)
                            ELSE EmptyString]
    /\ UNCHANGED <<storeVars, mgmtOthers>>

LimitsNext ==
    \/ UsageRecorded
    \/ GetUsageLimits

\* usage is f with two decimals and as near to f as two decimals get.
IsRounded2(usage, f) ==
    /\ usage % (Fixed \div 100) = 0
    /\ 2 * (usage - f) <= Fixed \div 100
    /\ 2 * (f - usage) <= Fixed \div 100

\* C23: with no record in the store the endpoint answers usage 0, status
\* "unknown" and reset "" for both windows; with a record, the six fields
\* come from the last record of the log alone: usage is its utilization
\* times 100 rounded to two decimals, status its status, reset its reset
\* instant as RFC3339, "" when that instant is the zero time.
C23_SimpleShape ==
    limits.asked =>
       IF Len(records) = 0
       THEN /\ limits.usage5h = 0 /\ limits.usage7d = 0
            /\ limits.status5h = unknownStatus /\ limits.status7d = unknownStatus
            /\ limits.reset5h = EmptyString /\ limits.reset7d = EmptyString
       ELSE LET r == records[Len(records)] IN
            /\ IsRounded2(limits.usage5h, r.Utilization5h * 100)
            /\ IsRounded2(limits.usage7d, r.Utilization7d * 100)
            /\ limits.status5h = r.Status5h /\ limits.status7d = r.Status7d
            /\ limits.reset5h = IF r.Reset5h = 0 THEN EmptyString
                                ELSE FormatRFC3339(r.Reset5h)
            /\ limits.reset7d = IF r.Reset7d = 0 THEN EmptyString
                                ELSE FormatRFC3339(r.Reset7d)

\* C23's case: the endpoint answered from a log of two records whose last
\* one has utilization 0.12346 and no 7-day reset: 12.35 and "".
C23_AnsweredFromLatest ==
    /\ limits.asked
    /\ Len(records) = 2
    /\ records[2].Utilization5h = 12346
    /\ records[1].Utilization5h # 12346
    /\ limits.usage5h = 1235000
    /\ limits.reset7d = EmptyString
    /\ limits.reset5h # EmptyString

----------------------------------------------------------------------------
(* Rate-limit store: one caller counting its appends *)

MaxAppends == 200

\* Record's arguments: a record that takes the time of the call and one that
\* brings a timestamp older than maxRecordAge.
CountInputs ==
    { RateLimitRecord(unified, 0, allowed, 0),
      RateLimitRecord(standard, StaleTime - 1, EmptyString, 100) }

CountInit ==
    /\ accepted = 0
    /\ pending = 0
    /\ saveRet = [ret |-> "none", via |-> "none", turn |-> FALSE]

IsOld(r, now) == r.Timestamp < now - maxRecordAge

\* What a Record call that appends does to the count of appends and to the
\* goroutines waiting to run Save.
Counted ==
    /\ accepted' = accepted + 1
    /\ pending' = pending + (IF storeLast'.spawned THEN 1 ELSE 0)

\* One Record call of a caller that runs alone, the log holding at most one
\* old record at a time.  The goroutines it starts have not run yet.
CountedRecord ==
    \E r \in CountInputs :
        /\ accepted < MaxAppends
        /\ IsOld(r, clock) => \A n \in 1..Len(records) : ~IsOld(records[n], clock)
        /\ Record(r)
        /\ Counted
        /\ UNCHANGED <<saveRet, file, tmp, savers, loadRet, countOthers>>

CountNext == CountedRecord

\* C25 as stated: counting the appends since the store was made, after the
\* Record that makes the count a multiple of 100 the log holds no record
\* older than seven days.
C25_SweepOnHundredthAppend ==
    (storeLast.valid /\ accepted % 100 = 0) =>
        \A n \in 1..Len(records) : ~IsOld(records[n], clock)

\* C25: after the Record that brings the length of the log to a multiple of
\* 100 the log holds no record older than seven days.
C25_SweepOnHundredthLength ==
    (storeLast.valid /\ storeLast.count % 100 = 0) =>
        \A n \in 1..Len(records) : ~IsOld(records[n], clock)

\* C25's case: the hundredth append was swept and removed a record, so the
\* next sweep came with the 101st append.
C25_SweepAfterShift ==
    /\ storeLast.valid
    /\ accepted = 101
    /\ storeLast.count = 100
    /\ Len(records) = 100

----------------------------------------------------------------------------
(* Rate-limit store: a Save that runs alone, and the Saves Record starts *)

\* os.WriteFile(filePath) of a Save that runs alone, and what Save returns
\* after it: the open fails, or truncates the file; the write then
\* completes or stops part way.
DirectWritesNoError(f, data) ==
    { [file |-> f, ret |-> "nil"] }
    \cup { [file |-> c, ret |-> "nil"] : c \in Written(Truncated, data) }
    \cup { [file |-> c, ret |-> "nil"] : c \in PartlyWritten(Truncated) }

DirectWrites(f, data) ==
    { [file |-> f, ret |-> "error"] }
    \cup { [file |-> c, ret |-> "nil"] : c \in Written(Truncated, data) }
    \cup { [file |-> c, ret |-> "error"] : c \in PartlyWritten(Truncated) }

\* What a whole Save call leaves of the file and of the temporary file, and
\* what it returns, when no other Save runs beside it: json.MarshalIndent or
\* os.MkdirAll fails; the temporary file is written and renamed; it is written
\* and the rename fails; its write fails at the open or later.  via names
\* the way the call took.
SaveOutcomes(rs, now, f, t) ==
    LET data == MarshalSnapshot(Retained(rs, now)) IN
    { [file |-> f, tmp |-> t, ret |-> "error", via |-> "marshal"],
      [file |-> f, tmp |-> t, ret |-> "error", via |-> "mkdir"],
      [file |-> Full(data), tmp |-> Absent, ret |-> "nil", via |-> "rename"] }
    \cup { [file |-> d.file, tmp |-> Absent, ret |-> d.ret, via |-> "direct_after_rename"] :
              d \in DirectWrites(f, data) }
    \cup { [file |-> d.file, tmp |-> c, ret |-> d.ret, via |-> "direct_after_tmp"] :
              d \in DirectWrites(f, data), c \in {t} \cup PartlyWritten(Truncated) }

\* One whole Save call.
Save ==
    /\ \A i \in Savers : savers[i].pc = "idle"
    /\ \E o \in SaveOutcomes(records, clock, file, tmp) :
          /\ file' = o.file
          /\ tmp' = o.tmp
          /\ saveRet' = [ret |-> o.ret, via |-> o.via, turn |-> ~saveRet.turn]
    /\ UNCHANGED <<records, savers, storeLast, loadRet>>

\* One whole Save call while GetRateLimitFilePath returns "".
SaveNoPath ==
    /\ saveRet' = [ret |-> "nil", via |-> "no_path", turn |-> ~saveRet.turn]
    /\ UNCHANGED <<storeVars, accepted, pending, countOthers>>

MaxSpawnAppends == 12

\* What the store finds at its start: no file, one that is no snapshot, or
\* the snapshot of two records.
StartFiles ==
    { Broken,
      Full(MarshalSnapshot(<< RateLimitRecord(unified, StartClock - 2, allowed, 0),
                              RateLimitRecord(standard, StartClock - 1, EmptyString, 100) >>)) }

StartFileFound(c) ==
    /\ accepted = 0
    /\ loadRet.ret = "none"
    /\ FileFound(c)

\* The Load of the start.
StartLoad ==
    /\ accepted = 0
    /\ loadRet.ret = "none"
    /\ Load

\* One Record call; the Save it may start waits in pending.
SpawnRecord ==
    /\ accepted < MaxSpawnAppends
    /\ Record(RateLimitRecord(unified, 0, allowed, 0))
    /\ Counted
    /\ UNCHANGED <<saveRet, file, tmp, savers, loadRet, countOthers>>

\* A goroutine Record started runs its Save.
SpawnedSave ==
    /\ pending > 0
    /\ pending' = pending - 1
    /\ Save
    /\ UNCHANGED <<accepted, countOthers>>

SpawnNext ==
    \/ \E c \in StartFiles : StartFileFound(c)
    \/ StartLoad
    \/ SpawnRecord
    \/ SpawnedSave

\* C26 as stated: counting the appends since the store was made, a Record
\* starts a Save exactly when the count is a multiple of 10.
C26_SaveOnTenthAppend ==
    storeLast.valid => (storeLast.spawned <=> accepted % 10 = 0)

\* C26: a Record that appends starts one Save in a goroutine exactly when it
\* leaves the log with a multiple of 10 records, and returns with that Save
\* not yet begun: the file and the temporary file are as they were.
C26_SaveOnTenthLength ==
    [][ accepted' # accepted =>
          /\ pending' = pending + (IF Len(records') % 10 = 0 THEN 1 ELSE 0)
          /\ file' = file
          /\ tmp' = tmp ]_vars

\* C26's case: the store loaded two records at its start; the eighth append
\* started a Save, which has not run, and the tenth started none.
C26_TenthAppendStartsNone ==
    /\ storeLast.valid
    /\ accepted = 10
    /\ Len(records) = 12
    /\ ~storeLast.spawned
    /\ pending = 1
    /\ file.state = "full"
    /\ Len(file.data) = 2

----------------------------------------------------------------------------
(* Rate-limit store: Save and the log in memory *)

\* Record's arguments: a record that takes the time of the call, one that
\* brings a timestamp of its own, one that is maxRecordAge old and one that
\* is older.
SaveInputs ==
    { RateLimitRecord(unified, 0, allowed, 0),
      RateLimitRecord(standard, StartClock - 1, EmptyString, 100),
      RateLimitRecord(unified, StaleTime, allowed, 0),
      RateLimitRecord(standard, StaleTime - 1, EmptyString, 100) }

SavedRecord ==
    \E r \in SaveInputs :
        /\ Len(records) < MaxLog
        /\ Record(r)
        /\ Counted
        /\ UNCHANGED <<saveRet, file, tmp, savers, loadRet, countOthers>>

\* A Save call with no Record and no other Save beside it.
SaveCall ==
    /\ Save
    /\ UNCHANGED <<accepted, pending, countOthers>>

SaveNext ==
    \/ SavedRecord
    \/ SaveCall

\* The records of rs that are not older than seven days at now.
NotOld(rs, now) == SelectSeq(rs, LAMBDA r : ~IsOld(r, now))

\* The records of rs that are newer than seven days at now.
Newer(rs, now) == SelectSeq(rs, LAMBDA r : r.Timestamp > now - maxRecordAge)

\* C27 as stated: after a Save with no Record beside it the log in memory
\* holds no record older than seven days, and the file holds the records
\* within seven days.
C27_SavePrunesMemory ==
    [][ (saveRet'.turn # saveRet.turn /\ saveRet'.ret = "nil") =>
          /\ \A n \in 1..Len(records') : ~IsOld(records'[n], clock)
          /\ file' = Full(MarshalSnapshot(NotOld(records', clock))) ]_vars

\* C27: a Save leaves the log in memory as it was; after a Save that
\* returned nil, with no Record beside it, the file holds the records of the
\* log that are newer than seven days, in the order of the log.
C27_SaveFiltersFileOnly ==
    [][ saveRet'.turn # saveRet.turn =>
          /\ records' = records
          /\ saveRet'.ret = "nil" =>
                file' = Full(MarshalSnapshot(Newer(records, clock))) ]_vars

\* C27's case: a Save returned nil; the log holds an old record and a new
\* one, the file the new one alone.
C27_OldRecordStaysInMemory ==
    /\ saveRet.ret = "nil"
    /\ Len(records) = 2
    /\ IsOld(records[1], clock)
    /\ ~IsOld(records[2], clock)
    /\ file.state = "full"
    /\ Len(file.data) = 1

----------------------------------------------------------------------------
(* Rate-limit store: Saves side by side *)

\* Save i has a file open for writing: os.WriteFile has opened the temporary
\* file or the path and has not closed it.
Writing(i) == savers[i].pc \in {"write_tmp", "write_direct"}

\* C28: at most one Save of the store is at its file I/O at any moment,
\* whoever started the Saves.
C28_OneSaveAtATime ==
    \A i, j \in Savers : (Writing(i) /\ Writing(j)) => i = j

\* Records being appended and Saves running, with no Load: the log only
\* grows, so the snapshot a Save takes extends every snapshot taken before.
OrderNext ==
    \/ StoreRecord
    \/ \E i \in Savers : SaveBegin(i)
    \/ \E i \in Savers : SaveOpenTmp(i)
    \/ \E i \in Savers : SaveWriteTmp(i)
    \/ \E i \in Savers : SaveRename(i)
    \/ \E i \in Savers : SaveOpenDirect(i)
    \/ \E i \in Savers : SaveWriteDirect(i)

IsPrefix(a, b) == Len(a) <= Len(b) /\ SubSeq(b, 1, Len(a)) = a

\* C29: a Save that took its snapshot earlier never replaces the content a
\* Save that took its snapshot later has put in the file: the snapshot in the
\* file is never replaced by one it extends.
C29_LaterSnapshotStays ==
    [][ (file.state = "full" /\ file'.state = "full") => IsPrefix(file.data, file'.data) ]_vars

----------------------------------------------------------------------------
(* Rate-limit store: the top level of a window summary *)

\* The records of the window of the last query.
WindowRecords ==
    { i \in 1..Len(records) : records[i].Timestamp >= clock - summary.d }

\* Those of them that no record of the window is newer than.
Greatest ==
    { i \in WindowRecords :
         \A j \in WindowRecords : records[j].Timestamp <= records[i].Timestamp }

\* C30: the top level of the summary comes from a record of the window with
\* the greatest timestamp: Unified is set exactly when that record is of
\* the unified dialect, LatestLimit exactly when it is not, never both, and
\* neither when the window holds no record.
C30_UnifiedOrLatestLimit ==
    summary.done =>
        LET s == summary.s IN
        IF WindowRecords = {}
        THEN ~s.Unified.found /\ ~s.LatestLimit.found
        ELSE /\ s.Unified.found # s.LatestLimit.found
             /\ s.Unified.found =>
                   \E i \in Greatest : records[i].Type = unified /\ s.Unified.r = records[i]
             /\ s.LatestLimit.found =>
                   \E i \in Greatest : records[i].Type # unified
                                       /\ s.LatestLimit.r = records[i]

\* C30's case: the window holds two unified records and, appended between
\* them, a newer standard one; the summary has LatestLimit and no Unified.
C30_NewestIsStandard ==
    /\ summary.done
    /\ Len(records) = 3
    /\ WindowRecords = {1, 2, 3}
    /\ records[1].Type = unified
    /\ records[2].Type = standard
    /\ records[3].Type = unified
    /\ records[3].Timestamp < records[2].Timestamp
    /\ summary.s.LatestLimit.found
    /\ ~summary.s.Unified.found

----------------------------------------------------------------------------
(* Rate-limit store: what Save returns *)

SaveReturnNext ==
    \/ SavedRecord
    \/ SaveCall
    \/ SaveNoPath

\* C31: Save returns nil whenever the snapshot ends up in the file, by the
\* rename or by either direct write, and an error only when
\* json.MarshalIndent, os.MkdirAll or the last direct write fails; with no
\* file path it returns nil and writes nothing; no Save changes the log.
C31_SaveReturns ==
    [][ saveRet'.turn # saveRet.turn =>
          LET data == MarshalSnapshot(Newer(records, clock))
              direct == saveRet'.via \in {"direct_after_tmp", "direct_after_rename"}
          IN  /\ records' = records
              /\ saveRet'.via = "no_path" =>
                    saveRet'.ret = "nil" /\ file' = file /\ tmp' = tmp
              /\ saveRet'.via \in {"marshal", "mkdir"} =>
                    saveRet'.ret = "error" /\ file' = file /\ tmp' = tmp
              /\ saveRet'.via = "rename" => saveRet'.ret = "nil" /\ file' = Full(data)
              /\ direct => (saveRet'.ret = "nil" => file' = Full(data))
              /\ direct => (saveRet'.ret = "error" => file' \in {file, Truncated, Broken})
              /\ saveRet'.ret \in {"nil", "error"} ]_vars

\* C31's case: the rename failed, the direct write went through, and Save
\* returned nil with the snapshot of a log of two records in the file.
C31_NilAfterRenameFailure ==
    /\ saveRet.ret = "nil"
    /\ saveRet.via = "direct_after_rename"
    /\ Len(records) = 2
    /\ file = Full(MarshalSnapshot(Newer(records, clock)))
    /\ tmp = Absent

----------------------------------------------------------------------------
(* Translator: the thinking of one text *)

ThinkTag(t) == thinkTagRegex.open \o t \o thinkTagRegex.close

ThinkIdMarker(id) == thinkIdRegex.open \o id \o thinkIdRegex.close

LegacyThinkingBlock(t) == legacyThinkingRegex.open \o t \o legacyThinkingRegex.close

LegacySignatureBlock(sig) == legacySignatureRegex.open \o sig \o legacySignatureRegex.close

LegacySig == <<"s", "g">>

\* The texts of the model: plain; think tag, marker and text; the marker
\* alone; marker and legacy pair; marker and Thinking block; Signature block
\* alone; legacy pair with an escaped fence in the thinking; two markers.
ExtractTexts ==
    { <<" ", "h", "i", "\n">>,
      ThinkTag(TextOne) \o ThinkIdMarker(ThinkingIdA) \o <<"\n", "o", "k">>,
      ThinkIdMarker(ThinkingIdA),
      ThinkIdMarker(ThinkingIdA) \o LegacyThinkingBlock(TextTwo)
          \o LegacySignatureBlock(LegacySig) \o <<"x">>,
      ThinkTag(TextOne) \o ThinkIdMarker(ThinkingIdA) \o LegacyThinkingBlock(TextTwo) \o <<"x">>,
      LegacySignatureBlock(LegacySig),
      <<"y", " ">> \o LegacyThinkingBlock(<<"T">> \o escapedFence) \o LegacySignatureBlock(LegacySig),
      ThinkIdMarker(ThinkingIdA) \o <<"z">> \o ThinkIdMarker(ThinkingIdA) }

\* The CacheThinking calls next to the extraction: one with a signature that
\* is valid, one with a signature that is not.
ExtractPutInputs ==
    { [sessionID |-> Session1, thinkingID |-> ThinkingIdA, thinkingText |-> TextOne, signature |-> SigA],
      [sessionID |-> Session1, thinkingID |-> ThinkingIdA, thinkingText |-> TextTwo, signature |-> LegacySig] }

\* The calls of the model: every text in the session of the CacheThinking
\* calls, and the marker text in the other session.
ExtractInputs ==
    { <<Session1, text>> : text \in ExtractTexts }
    \cup { <<Session2, ThinkTag(TextOne) \o ThinkIdMarker(ThinkingIdA) \o <<"\n", "o", "k">> >> }

ExtractInit == extracted = [called |-> FALSE]

\* The cache after GetCachedThinking: an expired entry it found is deleted.
AfterGetCachedThinking(sessionID, thinkingID) ==
    IF sessionID \in ThSessions /\ thinkingCache[sessionID].present
       /\ thinkingID \in DOMAIN thinkingCache[sessionID].entries
       /\ clock - thinkingCache[sessionID].entries[thinkingID].Timestamp > ThinkingCacheTTL
    THEN [thinkingCache EXCEPT ![sessionID].entries = DeleteEntry(@, thinkingID)]
    ELSE thinkingCache

\* One call of extractThinkingFromContent.  What the call returns is decided
\* where GetCachedThinking reads the entry, so the lookup is one step here.
Extract(sessionID, text) ==
    /\ LET idMatch == FindStringSubmatch(thinkIdRegex, text) IN
       /\ extracted' = [called |-> TRUE, sessionID |-> sessionID, text |-> text,
                        entry |-> IF idMatch.from # 0
                                  THEN CachedThinking(sessionID, idMatch.group)
                                  ELSE [found |-> FALSE],
                        parts |-> extractThinkingFromContent(sessionID, text)]
       /\ thinkingCache' = IF idMatch.from # 0
                           THEN AfterGetCachedThinking(sessionID, idMatch.group)
                           ELSE thinkingCache
    /\ UNCHANGED <<thWriter, thReader, thRet, thPuts, thLast, extractOthers>>

ExtractNext ==
    \/ \E in \in ExtractPutInputs :
          CacheThinkingEnter(in.sessionID, in.thinkingID, in.thinkingText, in.signature)
    \/ CacheThinkingLocked
    \/ ThTick
    \/ \E in \in ExtractInputs : Extract(in[1], in[2])

\* Whether the call restored the thinking of its marker: GetCachedThinking
\* returned an entry, and the entry's signature is valid.
MarkerRestores ==
    /\ extracted.entry.found
    /\ Len(extracted.entry.Signature) >= MinValidSignatureLen

Patterns == { thinkTagRegex, thinkIdRegex, legacyThinkingRegex, legacySignatureRegex }

\* C32: a text whose thinkId marker is not restored from the cache (a miss,
\* an expired entry, an invalid signature) is treated as a text without
\* marker: it yields a thinking part from the legacy pair exactly when it holds
\* both a Thinking block and a Signature block, and otherwise one text part
\* holding the text with all think tags, thinkId markers and legacy blocks
\* stripped, or no part when nothing is left; every text yields at most one
\* thinking part, and that part comes first.
C32_FallsThroughToLegacy ==
    extracted.called =>
          LET text == extracted.text
              parts == extracted.parts
              both == Matches(legacyThinkingRegex, text) /\ Matches(legacySignatureRegex, text)
              thinkings == { i \in 1..Len(parts) : parts[i].type = "thinking" }
          IN  /\ thinkings \subseteq {1}
              /\ ~MarkerRestores =>
                    IF both
                    THEN /\ thinkings = {1}
                         /\ parts[1].thinking =
                               Unescape(FindStringSubmatch(legacyThinkingRegex, text).group)
                         /\ parts[1].signature =
                               FindStringSubmatch(legacySignatureRegex, text).group
                    ELSE /\ thinkings = {}
                         /\ Len(parts) <= 1
                         /\ LET stripped ==
                                    TrimSpace(ReplaceAllString(legacySignatureRegex,
                                       ReplaceAllString(legacyThinkingRegex,
                                          ReplaceAllString(thinkIdRegex,
                                             ReplaceAllString(thinkTagRegex, text)))))
                            IN  /\ \A re \in Patterns : ~Matches(re, stripped)
                                /\ (parts = << >>) <=> (stripped = EmptyString)
                                /\ parts # << >> => parts[1] = [type |-> "text", text |-> stripped]

\* C32's case: the marker's entry has expired, the text holds a think tag, the
\* marker and a Thinking block without Signature block, and the one part is
\* the text that follows them.
C32_ExpiredMarkerTextOnly ==
    /\ extracted.called
    /\ extracted.sessionID = Session1
    /\ extracted.text = ThinkTag(TextOne) \o ThinkIdMarker(ThinkingIdA)
                           \o LegacyThinkingBlock(TextTwo) \o <<"x">>
    /\ <<Session1, ThinkingIdA, TextOne, SigA>> \in thPuts
    /\ clock > StartClock + ThinkingCacheTTL
    /\ thinkingCache[Session1].present
    /\ ThinkingIdA \notin DOMAIN thinkingCache[Session1].entries
    /\ ~extracted.entry.found
    /\ extracted.parts = << [type |-> "text", text |-> <<"x">>] >>

----------------------------------------------------------------------------
(* Translator: the session of a request *)

MarkerText == ThinkIdMarker(ThinkingIdA) \o <<"o", "k">>

\* User messages with a text, with an image as only part, with a text as
\* first part and with an empty text, and an assistant message with a marker.
SessionMessageInputs ==
    { [role |-> Str(roleUser), content |-> Str(<<"h">>)],
      [role |-> Str(roleUser), content |-> Arr(<< [type |-> Str(typeImageURL)] >>)],
      [role |-> Str(roleUser),
       content |-> Arr(<< [type |-> Str(typeText), text |-> Str(<<"t">>)] >>)],
      [role |-> Str(roleUser), content |-> Str(EmptyString)],
      [role |-> Str(roleAssistant), content |-> Str(MarkerText)] }

\* The sessions an earlier response may have cached the thinking under.
CachedSessions ==
    { GenerateThinkingID(<<"h">>),
      GenerateThinkingID(String(Arr(<< [type |-> Str(typeImageURL)] >>))) }

\* One call of CacheThinking run alone, for a session of any name.
CacheThinkingCall(sessionID, thinkingID, thinkingText, signature) ==
    /\ ~CacheThinkingRejects(sessionID, thinkingID, thinkingText, signature)
    /\ LET held == sessionID \in DOMAIN thinkingCache /\ thinkingCache[sessionID].present
           entries == IF held THEN thinkingCache[sessionID].entries ELSE << >>
       IN  \E e \in CacheThinkingOutcomes(entries, thinkingID, thinkingText, signature, clock) :
              thinkingCache' = [s \in DOMAIN thinkingCache \cup {sessionID} |->
                                   IF s = sessionID THEN [present |-> TRUE, entries |-> e]
                                   ELSE thinkingCache[s]]
    /\ thPuts' = thPuts \cup {<<sessionID, thinkingID, thinkingText, signature>>}
    /\ UNCHANGED <<thWriter, thReader, thRet, thLast>>
    /\ UNCHANGED <<clock, thOthers, evVars>>

SessionNext ==
    \/ \E message \in SessionMessageInputs : AddMessage(message)
    \/ \E sessionID \in CachedSessions : CacheThinkingCall(sessionID, ThinkingIdA, TextOne, SigA)
    \/ Convert

\* The textual content of a message: its string content, else the text of
\* its first content part.
TextualContent(message) ==
    LET c == Field(message, "content") IN
    IF c.json = "string" THEN c.s
    ELSE IF IsArray(c) /\ c.a # << >> THEN String(Field(c.a[1], "text"))
    ELSE EmptyString

\* The thinking parts of the output.
RestoredParts ==
    { <<i, j>> \in (1..Len(out.messages)) \X (1..MaxMessages) :
         /\ j <= Len(out.messages[i].content)
         /\ out.messages[i].content[j].type = "thinking" }

\* C33: the session id of a translation is the digest of the textual content
\* of the first user message, in input order, whose textual content (its
\* string content, else the text of its first content part) is not empty;
\* when no user message has textual content, the session id is empty and the
\* output holds no thinking part restored from the cache, whatever the cache
\* holds.
C33_SessionFromFirstUserText ==
    (call.called /\ Exists(request.messages)) =>
       LET ins == request.messages.a
           textual == { i \in 1..Len(ins) : /\ RoleOf(ins[i]) = roleUser
                                            /\ TextualContent(ins[i]) # EmptyString }
       IN  IF textual # {}
           THEN LET first == CHOOSE i \in textual : \A k \in textual : i <= k IN
                call.sessionID = GenerateThinkingID(TextualContent(ins[first]))
           ELSE /\ call.sessionID = EmptyString
                /\ RestoredParts = {}

\* The only user message holds an image and no text, and the marker of the
\* assistant message was restored from the cache.
C33_RestoredWithoutUserText ==
    /\ call.called
    /\ Exists(request.messages)
    /\ Len(request.messages.a) = 2
    /\ request.messages.a[1] = [role |-> Str(roleUser),
                                content |-> Arr(<< [type |-> Str(typeImageURL)] >>)]
    /\ RoleOf(request.messages.a[2]) = roleAssistant
    /\ out.messages[2].content =
          << [type |-> "thinking", thinking |-> TextOne, signature |-> SigA],
             [type |-> "text", text |-> <<"o", "k">>] >>

----------------------------------------------------------------------------
(* Translator: tool_use and tool_result parts of an array content *)

typeToolResult == <<"t", "o", "o", "l", "_", "r", "e", "s", "u", "l", "t">>

\* The parts of type tool_use or tool_result of input message i.
ToolParts(ins, i) ==
    LET c == Field(ins[i], "content") IN
    IF RoleOf(ins[i]) \in {roleUser, roleAssistant} /\ IsArray(c)
    THEN { j \in 1..Len(c.a) : String(Field(c.a[j], "type")) \in {typeToolUse, typeToolResult} }
    ELSE {}

\* C34: every tool_use part of the array content of a user or assistant
\* message is in the content of the message's output as a part of type
\* tool_use with the part's id, and every tool_result part as a part of type
\* tool_result with the part's tool_use_id.
C34_ToolPartsInOutput ==
    (out.done /\ Exists(request.messages)) =>
       LET ins == request.messages.a IN
       \A i \in 1..Len(ins) : \A j \in ToolParts(ins, i) :
          LET part == Field(ins[i], "content").a[j]
              o == out.messages[OutputPosition(ins, i)].content
          IN  \E k \in 1..Len(o) :
                 IF String(Field(part, "type")) = typeToolUse
                 THEN /\ o[k].type = "tool_use"
                      /\ o[k].id = String(Field(part, "id"))
                 ELSE /\ o[k].type = "tool_result"
                      /\ o[k].tool_use_id = String(Field(part, "tool_use_id"))

----------------------------------------------------------------------------
(* Rate-limit capture: from the response headers to the store *)

MaxCaptures == 2

\* The header names whose lower case holds "ratelimit".
RateLimitNames ==
    { Unified5hStatusHeader, RequestsLimitHeader, RequestsRemainingHeader, TokensLimitHeader }

sourceLabel == <<"k", "e", "y">>

\* The headers of the responses: an organization id, a unified status, a
\* request limit that is empty, zero or a number, and a token limit.
CaptureHeaders ==
    { <<OrganizationIdHeader, <<"o", "1">> >>,
      <<Unified5hStatusHeader, <<" ", "A", "l", "l", "o", "w", "e", "d", " ">> >>,
      <<RequestsLimitHeader, EmptyString>>,
      <<RequestsLimitHeader, <<"0">> >>,
      <<RequestsLimitHeader, <<"1", "0", "0">> >>,
      <<TokensLimitHeader, <<"1", "0", "0">> >> }

\* The next response: no header yet.
NextResponse ==
    /\ parsed.done
    /\ headers' = << >>
    /\ parsed' = NotParsed
    /\ UNCHANGED parseOthers

\* captureClaudeRateLimit(headers, source, model), the Record it ends with
\* included; parsed holds the record it parsed, when it parsed one.
captureClaudeRateLimit(source) ==
    /\ ~parsed.done
    /\ Len(records) < MaxCaptures
    /\ LET hasRateLimit == \E name \in DOMAIN headers : name \in RateLimitNames
           record == ParseRateLimitHeaders(headers, clock)
       IN  IF ~hasRateLimit
           THEN /\ parsed' = [done |-> TRUE, r |-> RateLimitRecord(EmptyString, 0, EmptyString, 0)]
                /\ UNCHANGED <<records, storeLast>>
           ELSE /\ parsed' = [done |-> TRUE, r |-> record]
                /\ IF IsEmpty(record)
                   THEN UNCHANGED <<records, storeLast>>
                   ELSE Record([record EXCEPT !.Source = source])
    /\ UNCHANGED <<headers, file, tmp, savers, loadRet>>
    /\ UNCHANGED <<clock, sigVars, thVars, evVars, queryVars, autoVars, idVars, uidVars,
                   convVars, mgmtVars, countVars, extractVars, histVars, isoVars>>

CaptureNext ==
    \/ \E h \in CaptureHeaders : SetHeader(h[1], h[2])
    \/ NextResponse
    \/ captureClaudeRateLimit(sourceLabel)

\* C35: a response with a standard limit header of a value that is not zero
\* and with no unified header has one record of type standard appended to the
\* store by captureClaudeRateLimit, whatever its other headers.
C35_StandardResponseRecorded ==
    [][ ( /\ ~parsed.done
          /\ parsed'.done
          /\ \E name \in {RequestsLimitHeader, TokensLimitHeader} :
                parseIntHeader(headers, name) # 0
          /\ Unified5hStatusHeader \notin DOMAIN headers )
        => /\ Len(records') = Len(records) + 1
           /\ SubSeq(records', 1, Len(records)) = records
           /\ records'[Len(records')].Type = standard
      ]_vars

\* A response with a request limit and no other header was recorded as
\* standard.
C35_StandardRecorded ==
    /\ parsed.done
    /\ DOMAIN headers = {RequestsLimitHeader}
    /\ Len(records) = 1
    /\ records[1].Type = standard
    /\ records[1].RequestsLimit = 100
    /\ records[1].Source = sourceLabel

----------------------------------------------------------------------------
(* Rate-limit store: the log and the records it was given *)

MaxHistory == 102

\* A timestamp one minute newer than maxRecordAge before the start.
YoungTime == StaleTime + 1

\* Record's arguments: a record that takes the time of the call, an empty
\* one, and records that bring a timestamp: exactly maxRecordAge old, a minute
\* newer and a minute older.
HistoryInputs ==
    { RateLimitRecord(unified, 0, allowed, 0),
      RateLimitRecord(unified, 0, EmptyString, 100),
      RateLimitRecord(standard, StaleTime, EmptyString, 100),
      RateLimitRecord(standard, YoungTime, EmptyString, 100),
      RateLimitRecord(standard, StaleTime - 1, EmptyString, 100) }

HistInit == acceptedLog = << >>

\* One Record call.  The records that bring a timestamp arrive as the last
\* three before the log reaches a multiple of 100.
HistoryRecord ==
    \E r \in HistoryInputs :
        /\ Len(acceptedLog) < MaxHistory
        /\ r.Timestamp # 0 => Len(records) % 100 >= 97
        /\ Record(r)
        /\ acceptedLog' = IF RecordRejects(r) THEN acceptedLog
                          ELSE Append(acceptedLog, storeLast'.r)
        /\ UNCHANGED <<file, tmp, savers, loadRet, histOthers>>

HistoryNext == HistoryRecord

\* Whether a from position i on is a subsequence of b from position j on.
RECURSIVE SubsequenceFrom(_, _, _, _)
SubsequenceFrom(a, i, b, j) ==
    IF i > Len(a) THEN TRUE
    ELSE IF j > Len(b) THEN FALSE
    ELSE IF a[i] = b[j] THEN SubsequenceFrom(a, i + 1, b, j + 1)
    ELSE SubsequenceFrom(a, i, b, j + 1)

\* How many leading elements a and b share.
CommonPrefix(a, b) ==
    Cardinality({ i \in 1..Len(a) : i <= Len(b) /\ \A k \in 1..i : a[k] = b[k] })

\* Whether a is a subsequence of b: the shared start set aside, the rest of a
\* is matched from left to right.
IsSubsequence(a, b) ==
    SubsequenceFrom(a, CommonPrefix(a, b) + 1, b, CommonPrefix(a, b) + 1)

\* C36: with Record calls and their sweeps only, the log is a subsequence of
\* the accepted records in the order of their appends; every Record leaves
\* the log with the record appended, or, when it sweeps, with exactly the
\* records of that log whose timestamp is after now minus seven days, in
\* their order and unchanged.
C36_AppendOnlyLog ==
    /\ [] IsSubsequence(records, acceptedLog)
    /\ [][ acceptedLog' # acceptedLog =>
             LET appended == Append(records, acceptedLog'[Len(acceptedLog')]) IN
             \/ records' = appended
             \/ records' = SelectSeq(appended, LAMBDA r : r.Timestamp > clock - maxRecordAge)
         ]_vars

\* The sweep of the hundredth append removed the record that was exactly
\* seven days old and the older one and kept the one a minute newer.
C36_SweptAroundYoungRecord ==
    /\ Len(acceptedLog) = 100
    /\ acceptedLog[98].Timestamp = StaleTime
    /\ acceptedLog[99].Timestamp = YoungTime
    /\ acceptedLog[100].Timestamp = StaleTime - 1
    /\ Len(records) = 98
    /\ records[98] = acceptedLog[99]
    /\ SubSeq(records, 1, 97) = SubSeq(acceptedLog, 1, 97)

----------------------------------------------------------------------------
(* Thinking cache: the sessions side by side *)

\* The CacheThinking calls: two into one session and one into the other, all
\* under the same thinking id.
IsoPutInputs ==
    { [sessionID |-> Session1, thinkingID |-> ThinkingIdA, thinkingText |-> TextOne, signature |-> SigA],
      [sessionID |-> Session1, thinkingID |-> ThinkingIdA, thinkingText |-> TextTwo, signature |-> SigB],
      [sessionID |-> Session2, thinkingID |-> ThinkingIdA, thinkingText |-> TextOne, signature |-> SigB] }

IsoInit == thCall = [op |-> "none", turn |-> FALSE]

\* One GetCachedThinking call run alone.
GetCachedThinkingCall(sessionID, thinkingID) ==
    /\ thCall' = [op |-> "get", turn |-> ~thCall.turn, sessionID |-> sessionID,
                  thinkingID |-> thinkingID, entry |-> CachedThinking(sessionID, thinkingID)]
    /\ thinkingCache' = AfterGetCachedThinking(sessionID, thinkingID)
    /\ UNCHANGED <<thWriter, thReader, thRet, thPuts, thLast, isoOthers>>

\* One ClearThinkingCache call run alone.
ClearThinkingCacheCall(sessionID) ==
    /\ thCall' = [op |-> "clear", turn |-> ~thCall.turn, sessionID |-> sessionID]
    /\ thinkingCache' = AfterClear(sessionID)
    /\ thLast' = [k \in { x \in DOMAIN thLast : sessionID # EmptyString /\ x[1] # sessionID }
                     |-> thLast[k]]
    /\ UNCHANGED <<thWriter, thReader, thRet, thPuts, isoOthers>>

IsoNext ==
    \/ \E in \in IsoPutInputs :
          CacheThinkingCall(in.sessionID, in.thinkingID, in.thinkingText, in.signature)
    \/ \E in \in ThGetInputs : GetCachedThinkingCall(in[1], in[2])
    \/ \E s \in {EmptyString} \cup ThSessions : ClearThinkingCacheCall(s)
    \/ ThTick

\* C37: the entry GetCachedThinking(s, id) returns was stored by a
\* CacheThinking under session s and id, whatever other sessions hold under
\* the same id; ClearThinkingCache(s) leaves session s without entry and every
\* other session as it was, and ClearThinkingCache("") leaves no session with
\* an entry.
C37_SessionsIsolated ==
    [][ thCall'.turn # thCall.turn =>
          LET s == thCall'.sessionID IN
          IF thCall'.op = "get"
          THEN /\ thCall'.entry.found =>
                     /\ <<s, thCall'.thinkingID, thCall'.entry.ThinkingText,
                          thCall'.entry.Signature>> \in thPuts
                     /\ thinkingCache[s].entries[thCall'.thinkingID].ThinkingText
                           = thCall'.entry.ThinkingText
               /\ \A x \in ThSessions \ {s} : thinkingCache'[x] = thinkingCache[x]
          ELSE \A x \in ThSessions :
                  IF s = EmptyString \/ x = s
                  THEN ~thinkingCache'[x].present /\ thinkingCache'[x].entries = << >>
                  ELSE thinkingCache'[x] = thinkingCache[x]
      ]_vars

\* Both sessions held an entry under the same id, the first was cleared, and
\* the second still holds its own.
C37_ClearedOneOfTwo ==
    /\ thCall.op = "clear"
    /\ thCall.sessionID = Session1
    /\ <<Session1, ThinkingIdA, TextOne, SigA>> \in thPuts
    /\ ~thinkingCache[Session1].present
    /\ thinkingCache[Session2].present
    /\ ThinkingIdA \in DOMAIN thinkingCache[Session2].entries
    /\ thinkingCache[Session2].entries[ThinkingIdA].ThinkingText = TextOne
    /\ thinkingCache[Session2].entries[ThinkingIdA].Signature = SigB

----------------------------------------------------------------------------
(* Signature cache: the sweeper beside the callers *)

SweptText == <<"t", "1">>

PurgeNext ==
    \/ \E m \in CacheModelNames : CacheSignatureEnter(m, SweptText, Rep("a", 50))
    \/ CacheSignatureStore
    \/ \E m \in CacheModelNames : GetCachedSignatureEnter(m, SweptText)
    \/ GetCachedSignatureLocked
    \/ ClearSignatureCache(EmptyString)
    \/ PurgeStart
    \/ PurgeBucket
    \/ PurgeDelete
    \/ PurgeEnd
    \/ SigTick

\* C38: whatever the sweeper does in between, a GetCachedSignature that
\* follows a completed CacheSignature of the same model group and text within
\* two hours, with no ClearSignatureCache in between, returns the signature
\* stored; the sweeper takes from a bucket only entries older than two hours
\* and removes only a bucket that is empty when it is removed.
C38_SweeperKeepsLiveSignatures ==
    /\ [][ ( /\ sigRet.op = "cache"
             /\ sigRet.stored
             /\ sigRet'.op = "get"
             /\ GetModelGroup(sigRet'.modelName) = sigRet.groupKey
             /\ sigRet'.text = sigRet.text
             /\ ~sigRet'.late )
           => /\ sigRet'.outcome = "hit"
              /\ sigRet'.value = sigRet.signature ]_vars
    /\ [][ (sweeper.pc = "range" /\ sweeper' # sweeper) =>
              \A g \in Groups : \A k \in DOMAIN signatureCache[g].entries :
                 \/ k \in DOMAIN signatureCache'[g].entries
                 \/ sweeper.now - signatureCache[g].entries[k].Timestamp > SignatureCacheTTL
         ]_vars
    /\ [][ (sweeper.pc = "delete" /\ sweeper'.pc = "range") =>
              signatureCache[sweeper.key].entries = << >> ]_vars

\* A get missed the signature a CacheSignature had stored just before: the
\* sweeper had found the bucket empty before the store and removed it after.
C38_LiveSignatureLost ==
    /\ sigRet.op = "get"
    /\ sigRet.outcome = "miss"
    /\ sigRet.text = SweptText
    /\ ~sigRet.late
    /\ sigPutAt = clock
    /\ sweeper.pc \in {"range", "sleep"}

-----
(* Specifications: one per subsystem, the others standing still *)

Init ==
    /\ clock = StartClock
    /\ SigInit /\ ThInit /\ EvInit /\ StoreInit /\ ParseInit /\ QueryInit
    /\ AutoInit
    /\ IdInit /\ UidInit /\ ConvInit
    /\ MgmtInit
    /\ CountInit
    /\ ExtractInit
    /\ HistInit
    /\ IsoInit

SpecSig == Init /\ [][SigNext]_vars

SpecThinking == Init /\ [][ThNext]_vars

SpecEvict == Init /\ [][EvictNext]_vars

SpecStore == Init /\ [][StoreNext]_vars

SpecSweep == Init /\ [][SweepNext]_vars

SpecParse == Init /\ [][ParseNext]_vars

SpecLoad == Init /\ [][LoadNext]_vars

SpecQuery == Init /\ [][QueryNext]_vars

SpecAutoSave == Init /\ [][AutoNext]_vars

FairSpecAutoSave == Init /\ [][AutoNext]_vars /\ AutoFairness

SpecUserID == Init /\ [][UidNext]_vars

SpecSampling == Init /\ [][SamplingNext]_vars

SpecMessages == Init /\ [][MessagesNext]_vars

SpecTools == Init /\ [][ToolsNext]_vars

SpecToolCalls == Init /\ [][ToolCallsNext]_vars

SpecMalformed == Init /\ [][MalformedNext]_vars

SpecLimits == Init /\ [][LimitsNext]_vars

SpecCount == Init /\ [][CountNext]_vars

SpecSpawn == Init /\ [][SpawnNext]_vars

SpecSave == Init /\ [][SaveNext]_vars

SpecOrder == Init /\ [][OrderNext]_vars

SpecSaveReturn == Init /\ [][SaveReturnNext]_vars

SpecExtract == Init /\ [][ExtractNext]_vars

SpecSession == Init /\ [][SessionNext]_vars

SpecCapture == Init /\ [][CaptureNext]_vars

SpecHistory == Init /\ [][HistoryNext]_vars

SpecIsolation == Init /\ [][IsoNext]_vars

SpecPurge == Init /\ [][PurgeNext]_vars

====
